---- MODULE Spec2Model ----
(***************************************************************************)
(* Model of the image-hub client (src/src/services/imageService.ts, first  *)
(* snapshot of the file, lines 1-612) together with the uploader component *)
(* that drives it (ImageUploader.handleFiles) and the storage backend it   *)
(* talks to.                                                               *)
(*                                                                         *)
(* JavaScript runs one task at a time, so every action below is the code   *)
(* that runs between two awaits on real I/O (a storage call, the image     *)
(* compression worker).  The storage backend answers each call in a step   *)
(* of its own, at any moment between the request and the continuation.     *)
(***************************************************************************)
EXTENDS Integers, Sequences, FiniteSets, TLC

\* ---------------------------------------------------------------- constants
MAX_IMAGES_PER_USER == 100
MAX_STORAGE_PER_USER_MB == 20
CACHE_TTL == 5000
MB == 1024 * 1024
MaxBytes == MAX_STORAGE_PER_USER_MB * MB
JpegKeepBytes == 800 * 1024

\* ------------------------------------------------------------------- bounds
SmallFile == 1024
BigFile == 2097152
MaxFetches == 2
MaxQueries == 2
MaxBatches == 2
MaxBatchLen == 2
MaxDeletes == 1
MaxNameLen == 3
MaxAuthRequests == 3
MaxProxyRequests == 2
MaxBulkCalls == 2
MaxMutateBatches == 1
MaxEffectRuns == 3
MaxLogins == 2
ItemsPerPage == 2
MaxLoads == 4
MaxGalleryDeletes == 2
MaxGalleryBulk == 1

Owners == {"u1", "u2"}
FileSizes == {SmallFile, BigFile}
\* the moments the clock is looked at: just inside and just outside the
\* freshness window of a snapshot taken at 0
TimePoints == {CACHE_TTL - 1, CACHE_TTL}

\* candidate files a user can select: name |-> (type, size, dimensions within
\* 2048, size the compression library produces; 0 = it throws or returns an
\* empty file)
FileNames == {"jpg", "png", "bad"}
FileInfo(n) ==
  CASE n = "jpg" -> [type |-> "image/jpeg", size |-> SmallFile, dimsOK |-> TRUE, out |-> SmallFile]
    [] n = "png" -> [type |-> "image/png", size |-> 3 * BigFile, dimsOK |-> FALSE, out |-> BigFile]
    [] OTHER     -> [type |-> "image/png", size |-> SmallFile, dimsOK |-> TRUE, out |-> 0]

\* ------------------------------------------------------------ storage lists
EmptyBag == [s \in FileSizes |-> 0]

RECURSIVE SumOver(_, _, _)
SumOver(S, bag, weighted) ==
  IF S = {} THEN 0
  ELSE LET s == CHOOSE x \in S : TRUE
       IN (IF weighted THEN s * bag[s] ELSE bag[s]) + SumOver(S \ {s}, bag, weighted)

\* data.length
DataLength(files) == SumOver(FileSizes, files, FALSE)
\* data.reduce((sum, file) => sum + size, 0)
TotalBytes(files) == SumOver(FileSizes, files, TRUE)

\* what the list call resolves to on failure: []
EmptyList == [files |-> EmptyBag, ver |-> 0, ok |-> FALSE]

VARIABLES
  now,               \* Date.now()
  cpf,               \* owner of the session (useAuth().cpf)
  storage,           \* backend: owner -> [files, ver]; ver counts committed mutations
  userImagesCache,   \* {} (null) or {[cpf, data, timestamp]}
  pendingRequests,   \* owner -> id of the fetch whose promise is stored, 0 = none
  fetches,           \* storage list calls issued and not yet settled in the client
  nextFetch,         \* number of storage list calls issued so far
  queries,           \* usage queries awaiting a fetch
  rets,              \* results returned by the last step
  batch,             \* the upload batch in progress, or the last one (handleFiles / uploadMultipleImages)
  nbatches,          \* batches started so far
  prev,              \* the decision canUploadImages returned before the current batch
  uploads,           \* uploadImage calls in progress
  removes,           \* deleteImage calls in progress
  nremoves,          \* deleteImage calls started so far
  acked,             \* owner -> highest storage version whose mutation has returned success to the client
  derive,            \* two calls of getUserIdentifier: their inputs and what came of them
  link,              \* a link token: what it was built from, the token, what getImageLink made of it
  users,             \* the users table: rows [cpf_hash, user_id]
  auth,              \* auth-user requests being handled or answered
  session,           \* AuthContext: the cleaned CPF and the user id of the session
  wire,              \* what the client has sent over the network
  imageLinks,        \* the image_links table: rows [unique_id, file_path]
  proxy,             \* retrieval requests (image-proxy, GET /image/:uniqueId)
  bulk,              \* the deleteMultipleImages call in progress, or the last one
  gallery,           \* ImageGallery: its state, its requests in flight and the owner's folder
  viewer,            \* ImageViewer: hasRequestedRef, the effect runs and what is shown
  local              \* localStorage imageHubLinks per owner, and what deleteImage returned last

\* the state of the quota tracker, the uploader and the storage of images
quota == <<now, cpf, storage, userImagesCache, pendingRequests, fetches, nextFetch,
           queries, rets, batch, nbatches, prev, uploads, removes, nremoves, acked>>

\* the state of the other components
extra == <<derive, link, users, auth, session, wire, imageLinks, proxy>>

\* the state of the gallery and of the viewer
ui == <<gallery, viewer, local>>

vars == <<quota, extra, bulk, ui>>

\* ------------------------------------------------------- fetchUserImagesList
\* a freshness test with the comparison turned around
CacheHitStale(c, useCache) ==
  /\ useCache
  /\ \E e \in userImagesCache : e.cpf = c /\ now - e.timestamp >= CACHE_TTL

\* line 222-227: the snapshot answers the call
CacheHit(c, useCache) ==
  /\ useCache
  /\ \E e \in userImagesCache : e.cpf = c /\ now - e.timestamp < CACHE_TTL

CachedData(c) == (CHOOSE e \in userImagesCache : e.cpf = c).data

\* which of its three paths fetchUserImagesList(c, useCache) takes in the
\* current state: "hit" (line 225), "attach" (line 232) or "new" (line 236-262)
FetchMode(c, useCache) ==
  IF CacheHit(c, useCache) THEN "hit"
  ELSE IF pendingRequests[c] # 0 THEN "attach"
  ELSE "new"

\* the fetch a caller awaits: 0 on a hit
FetchId(c, useCache) ==
  CASE FetchMode(c, useCache) = "hit" -> 0
    [] FetchMode(c, useCache) = "attach" -> pendingRequests[c]
    [] OTHER -> nextFetch + 1

\* the effect of one fetchUserImagesList(c, useCache) call on the module state
FetchUserImagesList(c, useCache) ==
  IF FetchMode(c, useCache) = "new"
  THEN /\ nextFetch < MaxFetches
       /\ nextFetch' = nextFetch + 1
       /\ fetches' = fetches \cup {[id |-> nextFetch + 1, cpf |-> c, st |-> "sent", data |-> EmptyList]}
       /\ pendingRequests' = [pendingRequests EXCEPT ![c] = nextFetch + 1]
  ELSE UNCHANGED <<nextFetch, fetches, pendingRequests>>

\* line 268-279, called with an owner
InvalidatedCache(c) == {e \in userImagesCache : e.cpf # c}
InvalidatedPending(c) == [pendingRequests EXCEPT ![c] = 0]

\* ------------------------------------------------------------ usage queries
QueryOps == {"countUserImages", "getUserStorageUsage", "getUserImagesInfo"}

\* every query through the snapshot, getUserImagesInfo included
UseCacheAlways(op) == TRUE

\* line 285, 293: default useCache = true; line 315: false
UseCache(op) == op # "getUserImagesInfo"

\* what a usage query returns for the list `data` it got (line 286, 295-308,
\* 317-334); ver/ok/ack/hit describe where the list came from
QueryResult(op, c, data, ack, hit) ==
  [op |-> op, cpf |-> c,
   count |-> DataLength(data.files),
   bytes |-> IF op = "countUserImages" THEN 0 ELSE TotalBytes(data.files),
   ver |-> data.ver, ok |-> data.ok, ack |-> ack, hit |-> hit]

\* countUserImages / getUserStorageUsage / getUserImagesInfo called for the
\* session owner (gallery loadImages, uploader refreshUsageInfo)
Query(op) ==
  /\ FetchMode(cpf, UseCache(op)) = "hit" \/ Cardinality(queries) < MaxQueries
  /\ FetchUserImagesList(cpf, UseCache(op))
  /\ IF FetchMode(cpf, UseCache(op)) = "hit"
     THEN /\ rets' = {QueryResult(op, cpf, CachedData(cpf), acked[cpf], TRUE)}
          /\ UNCHANGED queries
     ELSE /\ queries' = queries \cup {[op |-> op, cpf |-> cpf, fetch |-> FetchId(cpf, UseCache(op)), ack |-> acked[cpf]]}
          /\ rets' = {}
  /\ UNCHANGED <<now, cpf, storage, userImagesCache, batch, nbatches, prev, uploads, removes, nremoves, acked>>
  /\ UNCHANGED <<extra, bulk, ui>>

\* the storage backend answers a list call: the owner's files as they are now,
\* or a failure (error result or exception)
ListReply(f, ok) ==
  /\ f \in fetches /\ f.st = "sent"
  /\ fetches' = (fetches \ {f}) \cup
       {[f EXCEPT !.st = IF ok THEN "ok" ELSE "err",
                  !.data = IF ok THEN [files |-> storage[f.cpf].files, ver |-> storage[f.cpf].ver, ok |-> TRUE]
                           ELSE EmptyList]}
  /\ rets' = {}
  /\ UNCHANGED <<now, cpf, storage, userImagesCache, pendingRequests, nextFetch, queries,
                 batch, nbatches, prev, uploads, removes, nremoves, acked>>
  /\ UNCHANGED <<extra, bulk, ui>>

\* ------------------------------------------------------------ compressImage
\* line 84-130: a small JPEG within 2048 px is kept as it is; anything else
\* goes through the library, and an exception or an empty result is an error
compressImage(n) ==
  LET f == FileInfo(n) IN
  IF f.type = "image/jpeg" /\ f.size <= JpegKeepBytes /\ f.dimsOK
  THEN [ok |-> TRUE, size |-> f.size]
  ELSE IF f.out = 0 THEN [ok |-> FALSE, size |-> 0]
  ELSE [ok |-> TRUE, size |-> f.out]

\* ---------------------------------------------------------- canUploadImages
\* a count check that leaves the new files out
CountExceededNow(currentCount, n) == currentCount > MAX_IMAGES_PER_USER

\* line 365
CountExceeded(currentCount, n) == currentCount + n > MAX_IMAGES_PER_USER

\* a storage check that refuses a batch filling the limit exactly
StorageExceededAtLimit(currentBytes, totalSizeBytes) == currentBytes + totalSizeBytes >= MaxBytes

\* line 423, in bytes: usedMB = bytes / 2^20 and the sum are exact in a double
StorageExceeded(currentBytes, totalSizeBytes) == currentBytes + totalSizeBytes > MaxBytes

\* line 387-397: the files whose compression failed are left out of filesToCheck
FilesToCheck(files) == SelectSeq([i \in 1..Len(files) |-> compressImage(files[i])], LAMBDA r : r.ok)
CompressionErrors(files) == {i \in 1..Len(files) : ~compressImage(files[i]).ok}

RECURSIVE SumSizes(_)
SumSizes(rs) == IF rs = <<>> THEN 0 ELSE Head(rs).size + SumSizes(Tail(rs))

NoDecision ==
  [made |-> FALSE, canUpload |-> FALSE, currentCount |-> 0, maxCount |-> 0,
   currentBytes |-> 0, maxBytes |-> 0, reason |-> "none", availableBytes |-> 0, compressed |-> 0]

Decision(can, count, bytes, reason, avail, compressed) ==
  [made |-> TRUE, canUpload |-> can, currentCount |-> count, maxCount |-> MAX_IMAGES_PER_USER,
   currentBytes |-> bytes, maxBytes |-> MaxBytes, reason |-> reason, availableBytes |-> avail,
   compressed |-> compressed]

\* a count decision that reports the defaults of the catch branch (line
\* 443-452) in place of what the listing returned
CountDecisionDefaults(info, files) ==
  Decision(FALSE, 0, 0, "count", 0, 0)

\* line 364-375: the decision taken right after the listing, before any file
\* is compressed
CountDecision(info, files) ==
  Decision(FALSE, info.count, info.bytes, "count", 0, 0)

RECURSIVE SumOriginal(_)
SumOriginal(files) ==
  IF files = <<>> THEN 0
  ELSE (IF compressImage(Head(files)).ok THEN compressImage(Head(files)).size ELSE FileInfo(Head(files)).size)
       + SumOriginal(Tail(files))

\* a size decision that falls back to the original size of a file whose
\* compression failed
SizeDecisionFallback(info, files) ==
  IF StorageExceeded(info.bytes, SumOriginal(files))
  THEN Decision(FALSE, info.count, info.bytes, "storage", MaxBytes - info.bytes, Len(files))
  ELSE Decision(TRUE, info.count, info.bytes, "none", 0, Len(files))

\* line 377-442: the decision after the compression loop (alreadyCompressed =
\* false, as handleFiles calls it); `compressed` counts the compressImage calls
SizeDecision(info, files) ==
  IF CompressionErrors(files) # {}
  THEN Decision(FALSE, info.count, 0, "count", 0, Len(files))
  ELSE IF StorageExceeded(info.bytes, SumSizes(FilesToCheck(files)))
  THEN Decision(FALSE, info.count, info.bytes, "storage", MaxBytes - info.bytes, Len(files))
  ELSE Decision(TRUE, info.count, info.bytes, "none", 0, Len(files))

\* line 358-362: what canUploadImages reads off getUserImagesInfo
InfoOf(data) ==
  [count |-> DataLength(data.files), bytes |-> TotalBytes(data.files), ver |-> data.ver, ok |-> data.ok]
NoInfo == [count |-> 0, bytes |-> 0, ver |-> 0, ok |-> FALSE]

\* ------------------------------------------------------------------ batches
Ranked(n) == CASE n = "jpg" -> 1 [] n = "png" -> 2 [] OTHER -> 3
\* the file lists a user can select, up to the order of the files
BatchInputs ==
  {s \in UNION {[1..n -> FileNames] : n \in 1..MaxBatchLen} :
     \A i \in 1..(Len(s) - 1) : Ranked(s[i]) <= Ranked(s[i + 1])}

\* st: idle, listing (canUploadImages awaits its listing), compress (its
\* compression loop), rejected, uploading, done.  fmode/fresh record how the
\* listing was obtained and whether a fresh snapshot existed at the call.
IdleBatch ==
  [st |-> "idle", entry |-> "none", cpf |-> "u1", files |-> <<>>, fetch |-> 0, fmode |-> "none",
   fresh |-> FALSE, info |-> NoInfo, decision |-> NoDecision, succeeded |-> 0, failed |-> 0,
   messages |-> 0]

NoPrev == [made |-> FALSE, cpf |-> "u1", files |-> <<>>, info |-> NoInfo, decision |-> NoDecision]

\* isProcessing (ImageUploader): the drop zone takes no pointer events while a
\* batch is being processed
IsProcessing == batch.st \in {"listing", "compress", "uploading"}

\* the uploadImage calls of a batch, one per file.  With checkLimits each is at
\* its first await (compressImage, line 138).  Without it nothing is read
\* between that await and the storage upload call (line 138-172), so the call
\* is at the upload already, or has returned null on a compression error
NewUploads(c, files, checkLimits) ==
  {[i |-> i, cpf |-> c, file |-> files[i], checkLimits |-> checkLimits,
    st |-> IF checkLimits THEN "compress" ELSE "sent",
    fetch |-> 0, size |-> IF checkLimits THEN 0 ELSE compressImage(files[i]).size, ver |-> 0] :
   i \in {j \in 1..Len(files) : checkLimits \/ compressImage(files[j]).ok}}

\* a batch after canUploadImages got its listing `data`: rejected on the count
\* (line 365-375, handleFiles line 326-331) or on to the compression loop
AfterListing(b, data) ==
  IF CountExceeded(InfoOf(data).count, Len(b.files))
  THEN [b EXCEPT !.st = "rejected", !.info = InfoOf(data), !.decision = CountDecision(InfoOf(data), b.files)]
  ELSE [b EXCEPT !.st = "compress", !.info = InfoOf(data)]

\* the decision of the batch that a new call of canUploadImages follows
PrevOf(b) ==
  IF b.decision.made
  THEN [made |-> TRUE, cpf |-> b.cpf, files |-> b.files, info |-> b.info, decision |-> b.decision]
  ELSE prev

\* the batch after ok of its uploadImage calls returned a result and ko
\* returned null (handleFiles line 377-395); messages is the length of
\* failedMessages
Account(b, ok, ko) ==
  LET b1 == [b EXCEPT !.succeeded = @ + ok, !.failed = @ + ko, !.messages = @ + ko]
  IN IF ok + ko > 0 /\ b1.succeeded + b1.failed = Len(b1.files) THEN [b1 EXCEPT !.st = "done"] ELSE b1
Returned(b, success) == IF success THEN Account(b, 1, 0) ELSE Account(b, 0, 1)

\* ImageUploader.handleFiles up to its first await on I/O: the guards, then
\* canUploadImages -> getUserImagesInfo -> fetchUserImagesList(cpf, false)
HandleFiles(files) ==
  LET uc == UseCache("getUserImagesInfo")
      b0 == [IdleBatch EXCEPT !.entry = "handleFiles", !.cpf = cpf, !.files = files,
                              !.fetch = FetchId(cpf, uc), !.fmode = FetchMode(cpf, uc),
                              !.fresh = CacheHit(cpf, TRUE)]
  IN
  /\ ~IsProcessing /\ nbatches < MaxBatches
  /\ Len(files) > 0 /\ Len(files) <= 10
  /\ FetchUserImagesList(cpf, uc)
  /\ nbatches' = nbatches + 1
  /\ prev' = PrevOf(batch)
  /\ batch' = IF FetchMode(cpf, uc) = "hit"
              THEN AfterListing(b0, CachedData(cpf))
              ELSE [b0 EXCEPT !.st = "listing"]
  /\ rets' = {}
  /\ UNCHANGED <<now, cpf, storage, userImagesCache, queries, uploads, removes, nremoves, acked>>
  /\ UNCHANGED <<extra, bulk, ui>>

\* the compression loop of canUploadImages (line 387-397, awaits that touch
\* only local variables), its decision, and the rest of handleFiles: return on
\* a rejection (line 326-331), else start every upload with checkLimits =
\* false (line 353-365)
CanUploadCompress ==
  LET d == SizeDecision(batch.info, batch.files) IN
  /\ batch.st = "compress"
  /\ batch' = IF d.canUpload
              THEN Account([batch EXCEPT !.st = "uploading", !.decision = d],
                           0, Cardinality(CompressionErrors(batch.files)))
              ELSE [batch EXCEPT !.st = "rejected", !.decision = d]
  /\ uploads' = IF d.canUpload THEN uploads \cup NewUploads(batch.cpf, batch.files, FALSE) ELSE uploads
  /\ rets' = {}
  /\ UNCHANGED <<now, cpf, storage, userImagesCache, pendingRequests, fetches, nextFetch,
                 queries, nbatches, prev, removes, nremoves, acked>>
  /\ UNCHANGED <<extra, bulk, ui>>

\* uploadMultipleImages (line 206-210): every file through uploadImage with
\* the default checkLimits = true, in parallel
UploadMultipleImages(files) ==
  /\ ~IsProcessing /\ nbatches < MaxBatches
  /\ nbatches' = nbatches + 1
  /\ prev' = PrevOf(batch)
  /\ batch' = [IdleBatch EXCEPT !.st = "uploading", !.entry = "uploadMultipleImages",
                                !.cpf = cpf, !.files = files]
  /\ uploads' = uploads \cup NewUploads(cpf, files, TRUE)
  /\ rets' = {}
  /\ UNCHANGED <<now, cpf, storage, userImagesCache, pendingRequests, fetches, nextFetch,
                 queries, removes, nremoves, acked>>
  /\ UNCHANGED <<extra, bulk, ui>>

\* line 142-151: the check of uploadImage on the usage it got; an excess
\* throws, and the catch of line 198 returns null
UploadCheckFails(data, size) == StorageExceeded(TotalBytes(data.files), size)

\* uploadImage with checkLimits after compressImage resolved (line 138-172):
\* null on a compression error; else the usage check, through the snapshot
\* when it is fresh; then the storage upload call
UploadCompress(u) ==
  LET r == compressImage(u.file)
      uc == UseCache("getUserStorageUsage")
      sent == (uploads \ {u}) \cup {[u EXCEPT !.st = "sent", !.size = r.size]}
  IN
  /\ u \in uploads /\ u.st = "compress"
  /\ rets' = {}
  /\ u.checkLimits
  /\ IF ~r.ok
     THEN /\ uploads' = uploads \ {u}
          /\ batch' = Returned(batch, FALSE)
          /\ UNCHANGED <<pendingRequests, fetches, nextFetch>>
     ELSE /\ FetchUserImagesList(u.cpf, uc)
          /\ IF FetchMode(u.cpf, uc) = "hit"
             THEN IF UploadCheckFails(CachedData(u.cpf), r.size)
                  THEN /\ uploads' = uploads \ {u}
                       /\ batch' = Returned(batch, FALSE)
                  ELSE /\ uploads' = sent
                       /\ UNCHANGED batch
             ELSE /\ uploads' = (uploads \ {u}) \cup
                       {[u EXCEPT !.st = "checking", !.size = r.size, !.fetch = FetchId(u.cpf, uc)]}
                  /\ UNCHANGED batch
  /\ UNCHANGED <<now, cpf, storage, userImagesCache, queries, nbatches, prev, removes, nremoves, acked>>
  /\ UNCHANGED <<extra, bulk, ui>>

\* files with one more / one fewer file of size s
AddFile(files, s) == [files EXCEPT ![s] = @ + 1]
DropFile(files, s) == [files EXCEPT ![s] = IF @ > 0 THEN @ - 1 ELSE 0]

\* the storage backend answers an upload call: the file is stored, or the
\* call fails (uploadError)
UploadReply(u, ok) ==
  /\ u \in uploads /\ u.st = "sent"
  /\ IF ok
     THEN /\ storage' = [storage EXCEPT ![u.cpf] = [files |-> AddFile(@.files, u.size), ver |-> @.ver + 1]]
          /\ uploads' = (uploads \ {u}) \cup {[u EXCEPT !.st = "stored", !.ver = storage[u.cpf].ver + 1]}
     ELSE /\ uploads' = (uploads \ {u}) \cup {[u EXCEPT !.st = "error"]}
          /\ UNCHANGED storage
  /\ rets' = {}
  /\ UNCHANGED <<now, cpf, userImagesCache, pendingRequests, fetches, nextFetch, queries,
                 batch, nbatches, prev, removes, nremoves, acked>>
  /\ UNCHANGED <<extra, bulk, ui>>

Max(a, b) == IF a >= b THEN a ELSE b

\* localStorage imageHubLinks, per owner the entries by file; deleted is what
\* the last deleteImage returned ("none" before the first)
IdleLocal == [links |-> [o \in Owners |-> EmptyBag], deleted |-> "none"]

\* saveImageLink (lines 26-34, 183-188)
SavedLink(c, s) == [local EXCEPT !.links[c] = AddFile(@, s)]

\* the entry of the deleted file leaves the map, if there is one (lines 537-545)
RemovedLink(c, s) == [local EXCEPT !.links[c] = DropFile(@, s)]

\* a settlement whose failure ends the other uploads of the batch, as a
\* rejected promise of Promise.all would
UploadSettleAborting(u) ==
  /\ u \in uploads /\ u.st \in {"stored", "error"}
  /\ uploads' = IF u.st = "stored" THEN uploads \ {u} ELSE {}
  /\ batch' = Returned(batch, u.st = "stored")
  /\ IF u.st = "stored"
     THEN /\ userImagesCache' = InvalidatedCache(u.cpf)
          /\ pendingRequests' = InvalidatedPending(u.cpf)
          /\ acked' = [acked EXCEPT ![u.cpf] = Max(@, u.ver)]
     ELSE UNCHANGED <<userImagesCache, pendingRequests, acked>>
  /\ local' = IF u.st = "stored" THEN SavedLink(u.cpf, u.size) ELSE local
  /\ rets' = {}
  /\ UNCHANGED <<now, cpf, storage, fetches, nextFetch, queries, nbatches, prev, removes, nremoves>>
  /\ UNCHANGED <<extra, bulk, gallery, viewer>>

\* uploadImage after the upload call resolved (line 174-197): null on an
\* error, else the backup link is saved and the owner's cache invalidated
UploadSettle(u) ==
  /\ u \in uploads /\ u.st \in {"stored", "error"}
  /\ uploads' = uploads \ {u}
  /\ batch' = Returned(batch, u.st = "stored")
  /\ IF u.st = "stored"
     THEN /\ userImagesCache' = InvalidatedCache(u.cpf)
          /\ pendingRequests' = InvalidatedPending(u.cpf)
          /\ acked' = [acked EXCEPT ![u.cpf] = Max(@, u.ver)]
     ELSE UNCHANGED <<userImagesCache, pendingRequests, acked>>
  /\ local' = IF u.st = "stored" THEN SavedLink(u.cpf, u.size) ELSE local
  /\ rets' = {}
  /\ UNCHANGED <<now, cpf, storage, fetches, nextFetch, queries, nbatches, prev, removes, nremoves>>
  /\ UNCHANGED <<extra, bulk, gallery, viewer>>

\* ------------------------------------------------------------- deleteImage
\* deleteImage(cpf, fileName) up to the storage remove call (line 526-531),
\* for a stored file of size s picked in the gallery
DeleteImage(s) ==
  /\ nremoves < MaxDeletes
  /\ storage[cpf].files[s] > 0
  /\ nremoves' = nremoves + 1
  /\ removes' = removes \cup {[id |-> nremoves + 1, cpf |-> cpf, size |-> s, st |-> "sent", ver |-> 0]}
  /\ rets' = {}
  /\ UNCHANGED <<now, cpf, storage, userImagesCache, pendingRequests, fetches, nextFetch,
                 queries, batch, nbatches, prev, uploads, acked>>
  /\ UNCHANGED <<extra, bulk, ui>>

\* the storage backend answers a remove call: the file is gone, or the call fails
RemoveReply(r, ok) ==
  /\ r \in removes /\ r.st = "sent"
  /\ IF ok
     THEN /\ storage' = [storage EXCEPT ![r.cpf] = [files |-> DropFile(@.files, r.size), ver |-> @.ver + 1]]
          /\ removes' = (removes \ {r}) \cup {[r EXCEPT !.st = "removed", !.ver = storage[r.cpf].ver + 1]}
     ELSE /\ removes' = (removes \ {r}) \cup {[r EXCEPT !.st = "error"]}
          /\ UNCHANGED storage
  /\ rets' = {}
  /\ UNCHANGED <<now, cpf, userImagesCache, pendingRequests, fetches, nextFetch, queries,
                 batch, nbatches, prev, uploads, nremoves, acked>>
  /\ UNCHANGED <<extra, bulk, ui>>

\* a deleteImage that invalidates the owner's cache whatever the remove
\* call answered
RemoveSettleInvalidating(r) ==
  /\ r \in removes /\ r.st \in {"removed", "error"}
  /\ removes' = removes \ {r}
  /\ userImagesCache' = InvalidatedCache(r.cpf)
  /\ pendingRequests' = InvalidatedPending(r.cpf)
  /\ acked' = IF r.st = "removed" THEN [acked EXCEPT ![r.cpf] = Max(@, r.ver)] ELSE acked
  /\ local' = IF r.st = "removed"
              THEN [RemovedLink(r.cpf, r.size) EXCEPT !.deleted = "true"]
              ELSE [local EXCEPT !.deleted = "false"]
  /\ rets' = {}
  /\ UNCHANGED <<now, cpf, storage, fetches, nextFetch, queries, batch, nbatches, prev, uploads, nremoves>>
  /\ UNCHANGED <<extra, bulk, gallery, viewer>>

\* deleteImage after the remove call resolved (line 533-551): false on an
\* error, else the owner's cache is invalidated
RemoveSettle(r) ==
  /\ r \in removes /\ r.st \in {"removed", "error"}
  /\ removes' = removes \ {r}
  /\ IF r.st = "removed"
     THEN /\ userImagesCache' = InvalidatedCache(r.cpf)
          /\ pendingRequests' = InvalidatedPending(r.cpf)
          /\ acked' = [acked EXCEPT ![r.cpf] = Max(@, r.ver)]
     ELSE UNCHANGED <<userImagesCache, pendingRequests, acked>>
  /\ local' = IF r.st = "removed"
              THEN [RemovedLink(r.cpf, r.size) EXCEPT !.deleted = "true"]
              ELSE [local EXCEPT !.deleted = "false"]
  /\ rets' = {}
  /\ UNCHANGED <<now, cpf, storage, fetches, nextFetch, queries, batch, nbatches, prev, uploads, nremoves>>
  /\ UNCHANGED <<extra, bulk, gallery, viewer>>

\* ------------------------------------------------- fetch settles in the client
\* the continuation of the list call inside fetchUserImagesList (line 245-257)
\* and, in the same task, of every caller awaiting that promise
FetchSettle(f) ==
  LET value == f.data
      waitingQ == {q \in queries : q.fetch = f.id}
      waitingU == {u \in uploads : u.st = "checking" /\ u.fetch = f.id}
      refused == {u \in waitingU : UploadCheckFails(value, u.size)}
  IN
  /\ f \in fetches /\ f.st \in {"ok", "err"}
  /\ fetches' = fetches \ {f}
  /\ userImagesCache' = IF f.st = "ok"
                        THEN {[cpf |-> f.cpf, data |-> f.data, timestamp |-> now]}
                        ELSE userImagesCache
  /\ pendingRequests' = [pendingRequests EXCEPT ![f.cpf] = 0]
  /\ queries' = queries \ waitingQ
  /\ rets' = {QueryResult(q.op, q.cpf, value, q.ack, FALSE) : q \in waitingQ}
  /\ uploads' = (uploads \ waitingU) \cup {[u EXCEPT !.st = "sent"] : u \in waitingU \ refused}
  /\ batch' = Account(IF batch.st = "listing" /\ batch.fetch = f.id THEN AfterListing(batch, value) ELSE batch,
                      0, Cardinality(refused))
  /\ UNCHANGED <<now, cpf, storage, nextFetch, nbatches, prev, removes, nremoves, acked>>
  /\ UNCHANGED <<extra, bulk, ui>>

\* ------------------------------------------------------------- environment
Tick(t) ==
  /\ t \in TimePoints /\ t > now
  /\ now' = t
  /\ rets' = {}
  /\ UNCHANGED <<cpf, storage, userImagesCache, pendingRequests, fetches, nextFetch, queries,
                 batch, nbatches, prev, uploads, removes, nremoves, acked>>
  /\ UNCHANGED <<extra, bulk, ui>>

\* logout followed by the login of another owner (AuthContext); calls already
\* started keep the owner they were started with
Login(o) ==
  /\ o \in Owners /\ o # cpf
  /\ cpf' = o
  /\ rets' = {}
  /\ UNCHANGED <<now, storage, userImagesCache, pendingRequests, fetches, nextFetch, queries,
                 batch, nbatches, prev, uploads, removes, nremoves, acked>>
  /\ UNCHANGED <<extra, bulk, ui>>

\* ------------------------------------------------------------------- text
\* a string is the sequence of its char codes
Code ==
  " " :> 32 @@ "!" :> 33 @@ "+" :> 43 @@ "-" :> 45 @@ "." :> 46 @@ "/" :> 47 @@ "0" :> 48 @@
  "1" :> 49 @@ "2" :> 50 @@ "3" :> 51 @@ "4" :> 52 @@ "5" :> 53 @@ "6" :> 54 @@ "7" :> 55 @@
  "8" :> 56 @@ "9" :> 57 @@ ":" :> 58 @@ "=" :> 61 @@ "?" :> 63 @@ "A" :> 65 @@ "B" :> 66 @@
  "C" :> 67 @@ "D" :> 68 @@ "E" :> 69 @@ "F" :> 70 @@ "G" :> 71 @@ "H" :> 72 @@ "I" :> 73 @@
  "J" :> 74 @@ "K" :> 75 @@ "L" :> 76 @@ "M" :> 77 @@ "N" :> 78 @@ "O" :> 79 @@ "P" :> 80 @@
  "Q" :> 81 @@ "R" :> 82 @@ "S" :> 83 @@ "T" :> 84 @@ "U" :> 85 @@ "V" :> 86 @@ "W" :> 87 @@
  "X" :> 88 @@ "Y" :> 89 @@ "Z" :> 90 @@ "_" :> 95 @@ "a" :> 97 @@ "b" :> 98 @@ "c" :> 99 @@
  "d" :> 100 @@ "e" :> 101 @@ "f" :> 102 @@ "g" :> 103 @@ "h" :> 104 @@ "i" :> 105 @@
  "j" :> 106 @@ "k" :> 107 @@ "l" :> 108 @@ "m" :> 109 @@ "n" :> 110 @@ "o" :> 111 @@
  "p" :> 112 @@ "q" :> 113 @@ "r" :> 114 @@ "s" :> 115 @@ "t" :> 116 @@ "u" :> 117 @@
  "v" :> 118 @@ "w" :> 119 @@ "x" :> 120 @@ "y" :> 121 @@ "z" :> 122 @@ "~" :> 126
Text(cs) == [i \in DOMAIN cs |-> Code[cs[i]]]

\* ------------------------------------------------- the identifier deriver
\* what is typed into the login form: two CPFs plain and with punctuation,
\* and inputs with 10, 12 and no digits
DeriveInputs ==
  {Text(<<"5", "2", "9", "9", "8", "2", "2", "4", "7", "2", "5">>),
   Text(<<"5", "2", "9", ".", "9", "8", "2", ".", "2", "4", "7", "-", "2", "5">>),
   Text(<<" ", "5", "2", "9", " ", "9", "8", "2", " ", "2", "4", "7", " ", "2", "5">>),
   Text(<<"1", "1", "1", "4", "4", "4", "7", "7", "7", "3", "5">>),
   Text(<<"1", "1", "1", ".", "4", "4", "4", ".", "7", "7", "7", "-", "3", "5">>),
   Text(<<"5", "2", "9", "9", "8", "2", "2", "4", "7", "2">>),
   Text(<<"5", "2", "9", ".", "9", "8", "2", ".", "2", "4", "7", "-", "2">>),
   Text(<<"5", "2", "9", "9", "8", "2", "2", "4", "7", "2", "5", "1">>),
   <<>>}

\* CryptoJS.SHA256(m).toString() for the messages the deriver can be given:
\* the digest of each as 64 lower-case hex characters
Sha256Table ==
  {
   <<Text(<<"5", "2", "9", "9", "8", "2", "2", "4", "7", "2", "5">>),
     Text(<<"7", "2", "8", "1", "d", "f", "b", "5", "e", "8", "b", "e", "c", "c", "a", "0",
            "a", "1", "c", "5", "e", "7", "7", "c", "1", "2", "6", "8", "b", "a", "a", "c",
            "b", "0", "f", "9", "8", "3", "5", "7", "2", "b", "8", "c", "2", "0", "4", "f",
            "d", "8", "d", "f", "7", "2", "b", "2", "4", "1", "7", "5", "b", "2", "3", "1">>)>>,
   <<Text(<<"5", "2", "9", ".", "9", "8", "2", ".", "2", "4", "7", "-", "2", "5">>),
     Text(<<"e", "0", "8", "9", "7", "5", "3", "5", "a", "3", "8", "2", "b", "7", "c", "5",
            "4", "1", "5", "4", "9", "2", "c", "a", "f", "8", "d", "d", "c", "a", "2", "4",
            "2", "6", "5", "4", "a", "e", "e", "7", "d", "a", "0", "8", "3", "1", "9", "2",
            "a", "7", "0", "a", "5", "e", "b", "7", "7", "2", "3", "6", "0", "6", "a", "4">>)>>,
   <<Text(<<" ", "5", "2", "9", " ", "9", "8", "2", " ", "2", "4", "7", " ", "2", "5">>),
     Text(<<"3", "f", "7", "2", "e", "f", "4", "c", "9", "0", "8", "8", "b", "4", "3", "5",
            "2", "0", "2", "a", "f", "7", "9", "2", "d", "e", "2", "d", "2", "a", "e", "3",
            "e", "c", "2", "f", "c", "9", "7", "2", "4", "7", "5", "a", "9", "4", "1", "b",
            "f", "9", "6", "5", "e", "d", "b", "a", "6", "1", "2", "a", "1", "b", "3", "0">>)>>,
   <<Text(<<"1", "1", "1", "4", "4", "4", "7", "7", "7", "3", "5">>),
     Text(<<"8", "c", "2", "d", "3", "a", "7", "5", "1", "f", "9", "c", "7", "3", "9", "3",
            "4", "4", "4", "1", "d", "1", "6", "f", "9", "5", "7", "8", "d", "5", "6", "6",
            "e", "7", "d", "d", "7", "a", "2", "9", "9", "6", "a", "0", "4", "2", "f", "2",
            "e", "f", "0", "4", "7", "b", "5", "b", "e", "9", "2", "6", "5", "3", "4", "c">>)>>,
   <<Text(<<"1", "1", "1", ".", "4", "4", "4", ".", "7", "7", "7", "-", "3", "5">>),
     Text(<<"f", "9", "c", "9", "8", "0", "d", "1", "e", "1", "c", "4", "4", "6", "2", "6",
            "3", "2", "6", "5", "8", "2", "d", "5", "a", "1", "9", "5", "1", "c", "e", "c",
            "8", "f", "f", "8", "4", "a", "c", "8", "d", "b", "2", "4", "1", "1", "4", "e",
            "b", "c", "6", "1", "e", "d", "a", "7", "c", "5", "a", "5", "3", "b", "6", "2">>)>>,
   <<Text(<<"5", "2", "9", "9", "8", "2", "2", "4", "7", "2">>),
     Text(<<"2", "3", "6", "7", "8", "b", "f", "5", "e", "6", "c", "6", "3", "9", "b", "8",
            "4", "2", "8", "3", "a", "d", "5", "d", "f", "e", "d", "3", "d", "9", "c", "c",
            "a", "7", "9", "0", "0", "5", "5", "a", "d", "9", "8", "6", "1", "4", "d", "9",
            "a", "8", "6", "2", "9", "7", "1", "e", "7", "5", "5", "9", "c", "a", "8", "e">>)>>,
   <<Text(<<"5", "2", "9", ".", "9", "8", "2", ".", "2", "4", "7", "-", "2">>),
     Text(<<"2", "5", "2", "3", "2", "9", "9", "f", "5", "2", "0", "c", "e", "1", "2", "5",
            "a", "9", "7", "d", "d", "9", "a", "2", "c", "d", "3", "3", "8", "1", "b", "8",
            "a", "5", "6", "b", "1", "b", "1", "3", "2", "8", "9", "3", "9", "4", "b", "1",
            "6", "3", "9", "8", "1", "6", "e", "8", "1", "5", "7", "f", "1", "a", "b", "5">>)>>,
   <<Text(<<"5", "2", "9", "9", "8", "2", "2", "4", "7", "2", "5", "1">>),
     Text(<<"f", "7", "b", "8", "5", "d", "b", "6", "c", "0", "b", "7", "2", "c", "d", "8",
            "3", "e", "c", "2", "9", "7", "d", "6", "6", "7", "3", "d", "7", "1", "e", "f",
            "3", "2", "5", "9", "0", "d", "f", "e", "6", "3", "2", "3", "1", "a", "5", "2",
            "e", "c", "f", "8", "9", "5", "e", "e", "b", "c", "5", "0", "e", "a", "9", "3">>)>>,
   <<<<>>,
     Text(<<"e", "3", "b", "0", "c", "4", "4", "2", "9", "8", "f", "c", "1", "c", "1", "4",
            "9", "a", "f", "b", "f", "4", "c", "8", "9", "9", "6", "f", "b", "9", "2", "4",
            "2", "7", "a", "e", "4", "1", "e", "4", "6", "4", "9", "b", "9", "3", "4", "c",
            "a", "4", "9", "5", "9", "9", "1", "b", "7", "8", "5", "2", "b", "8", "5", "5">>)>>
  }
SHA256(m) == (CHOOSE p \in Sha256Table : p[1] = m)[2]

\* cpf.replace(/\D/g, '') (userMapping line 8, cleanCPF)
Cleaned(cpfInput) == SelectSeq(cpfInput, LAMBDA c : c \in 48..57)

\* a hash that stops at the digit count and hashes what it was given
hashCPFUncleaned(cpfInput) ==
  IF Len(SelectSeq(cpfInput, LAMBDA c : c \in 48..57)) # 11
  THEN [threw |-> TRUE, hashed |-> FALSE, value |-> <<>>]
  ELSE [threw |-> FALSE, hashed |-> TRUE, value |-> SHA256(cpfInput)]

\* a hash without the test of the digit count
hashCPFUnchecked(cpfInput) ==
  [threw |-> FALSE, hashed |-> TRUE, value |-> SHA256(SelectSeq(cpfInput, LAMBDA c : c \in 48..57))]

\* hashCPF (userMapping line 7-13): throws unless 11 digits are left, else the
\* digest of the digits; `hashed` tells whether SHA256 was computed
hashCPF(cpfInput) ==
  IF Len(Cleaned(cpfInput)) # 11
  THEN [threw |-> TRUE, hashed |-> FALSE, value |-> <<>>]
  ELSE [threw |-> FALSE, hashed |-> TRUE, value |-> SHA256(Cleaned(cpfInput))]

\* generateUserId (line 19-21): cpfHash.substring(0, 16)
generateUserId(cpfHash) == SubSeq(cpfHash, 1, 16)

NotCalled == [called |-> FALSE, threw |-> FALSE, hashed |-> FALSE, cpfHash |-> <<>>, userId |-> <<>>]

\* getUserIdentifier (line 28-32): the exception of hashCPF passes through
getUserIdentifier(cpfInput) ==
  IF hashCPF(cpfInput).threw
  THEN [called |-> TRUE, threw |-> TRUE, hashed |-> hashCPF(cpfInput).hashed, cpfHash |-> <<>>, userId |-> <<>>]
  ELSE [called |-> TRUE, threw |-> FALSE, hashed |-> hashCPF(cpfInput).hashed,
        cpfHash |-> hashCPF(cpfInput).value, userId |-> generateUserId(hashCPF(cpfInput).value)]

IdleDerive == [a |-> <<>>, b |-> <<>>, ra |-> NotCalled, rb |-> NotCalled]

\* getUserIdentifier is called on the first input
DeriveFirst ==
  /\ ~derive.ra.called
  /\ derive' = [derive EXCEPT !.ra = getUserIdentifier(derive.a)]
  /\ UNCHANGED <<quota, link, users, auth, session, wire, imageLinks, proxy, bulk, ui>>

\* getUserIdentifier is called on the second input
DeriveSecond ==
  /\ ~derive.rb.called
  /\ derive' = [derive EXCEPT !.rb = getUserIdentifier(derive.b)]
  /\ UNCHANGED <<quota, link, users, auth, session, wire, imageLinks, proxy, bulk, ui>>

\* =================================================== the link token codec
\* the owners a token is built for: the digits the session holds, a 16
\* character identifier, a short one, the empty one and one with a hyphen
LinkOwners ==
  { Text(<<"5", "2", "9", "9", "8", "2", "2", "4", "7", "2", "5">>),
    Text(<<"5", "f", "1", "a", "2", "b", "3", "c", "4", "d", "5", "e", "6", "f", "7", "0">>),
    Text(<<"a", "b">>),
    Text(<<"a", "-", "b">>),
    <<>> }

\* the characters file names are drawn from; "~" and "?" give the "+" and
\* "/" of base64 when they end a group of three
NameChars == {Code["a"], Code["-"], Code["."], Code["~"], Code["?"]}

RECURSIVE NamesUpTo(_)
NamesUpTo(n) ==
  IF n = 0 THEN {<<>>}
  ELSE NamesUpTo(n - 1) \cup
       {Append(s, c) : s \in {t \in NamesUpTo(n - 1) : Len(t) = n - 1}, c \in NameChars}

\* file names: every text over NameChars up to MaxNameLen, two names of the
\* shape uploadImage generates (line 159) and one whose token holds both
\* substituted characters
LinkFileNames ==
  NamesUpTo(MaxNameLen) \cup
  { Text(<<"p", "h", "o", "t", "o", ".", "p", "n", "g">>),
    Text(<<"1", "7", "3", "0", "-", "k", "3", "~", ".", "w", "e", "b", "p">>),
    Text(<<"-", "a", "~", "-", "a", "?", "-">>) }

\* the base64 alphabet: A-Z, a-z, 0-9, "+", "/"
B64Char(v) ==
  IF v < 26 THEN 65 + v
  ELSE IF v < 52 THEN 97 + (v - 26)
  ELSE IF v < 62 THEN 48 + (v - 52)
  ELSE IF v = 62 THEN 43 ELSE 47

B64Val(c) ==
  IF c >= 65 /\ c <= 90 THEN c - 65
  ELSE IF c >= 97 /\ c <= 122 THEN c - 97 + 26
  ELSE IF c >= 48 /\ c <= 57 THEN c - 48 + 52
  ELSE IF c = 43 THEN 62
  ELSE IF c = 47 THEN 63 ELSE -1

\* btoa: three bytes give four characters, the rest is padded with "="
RECURSIVE btoa(_)
btoa(s) ==
  IF Len(s) = 0 THEN <<>>
  ELSE IF Len(s) = 1
    THEN <<B64Char(s[1] \div 4), B64Char((s[1] % 4) * 16), 61, 61>>
  ELSE IF Len(s) = 2
    THEN <<B64Char(s[1] \div 4), B64Char((s[1] % 4) * 16 + (s[2] \div 16)),
           B64Char((s[2] % 16) * 4), 61>>
  ELSE <<B64Char(s[1] \div 4), B64Char((s[1] % 4) * 16 + (s[2] \div 16)),
         B64Char((s[2] % 16) * 4 + (s[3] \div 64)), B64Char(s[3] % 64)>>
       \o btoa(SubSeq(s, 4, Len(s)))

\* str.replace(/x/g, 'y') for single characters
ReplaceAll(s, x, y) == [i \in 1..Len(s) |-> IF s[i] = x THEN y ELSE s[i]]

\* str.replace(/x/g, '')
RemoveAll(s, x) == SelectSeq(s, LAMBDA c : c # x)

\* a token built with the substitutions the wrong way round ("+" for "-")
EncodeTokenSwapped(owner, fileName) ==
  RemoveAll(ReplaceAll(ReplaceAll(btoa(owner \o <<45>> \o fileName), 47, 95), 43, 45), 61)

\* the unique id of uploadImage (line 164) and listUserImages (line 499):
\* btoa(`${cpf}-${fileName}`), "/" to "-", "+" to "_", "=" removed
EncodeToken(owner, fileName) ==
  RemoveAll(ReplaceAll(ReplaceAll(btoa(owner \o <<45>> \o fileName), 47, 45), 43, 95), 61)

\* the groups of atob once padding is gone: four characters give three
\* bytes, three give two, two give one; bits left over are dropped
RECURSIVE DecodeGroups(_)
DecodeGroups(t) ==
  IF Len(t) < 2 THEN <<>>
  ELSE IF Len(t) = 2
    THEN <<B64Val(t[1]) * 4 + (B64Val(t[2]) \div 16)>>
  ELSE IF Len(t) = 3
    THEN <<B64Val(t[1]) * 4 + (B64Val(t[2]) \div 16),
           (B64Val(t[2]) % 16) * 16 + (B64Val(t[3]) \div 4)>>
  ELSE <<B64Val(t[1]) * 4 + (B64Val(t[2]) \div 16),
         (B64Val(t[2]) % 16) * 16 + (B64Val(t[3]) \div 4),
         (B64Val(t[3]) % 4) * 64 + B64Val(t[4])>>
       \o DecodeGroups(SubSeq(t, 5, Len(t)))

\* atob removes ASCII whitespace, then one or two "=" that end a text whose
\* length is a multiple of four
Unpadded(s) ==
  LET t == SelectSeq(s, LAMBDA c : c \notin {9, 10, 12, 13, 32})
  IN IF Len(t) % 4 = 0 /\ Len(t) >= 2 /\ t[Len(t)] = 61 /\ t[Len(t) - 1] = 61
       THEN SubSeq(t, 1, Len(t) - 2)
     ELSE IF Len(t) % 4 = 0 /\ Len(t) >= 1 /\ t[Len(t)] = 61
       THEN SubSeq(t, 1, Len(t) - 1)
     ELSE t

\* atob: throws on a length of 1 modulo 4 and on a character outside the
\* alphabet
atob(s) ==
  IF Len(Unpadded(s)) % 4 = 1 \/ \E i \in 1..Len(Unpadded(s)) : B64Val(Unpadded(s)[i]) = -1
  THEN [threw |-> TRUE, value |-> <<>>]
  ELSE [threw |-> FALSE, value |-> DecodeGroups(Unpadded(s))]

\* str.split('-')
RECURSIVE Split(_)
Split(s) ==
  IF \A i \in 1..Len(s) : s[i] # 45 THEN <<s>>
  ELSE LET k == CHOOSE i \in 1..Len(s) : s[i] = 45 /\ \A j \in 1..(i - 1) : s[j] # 45
       IN <<SubSeq(s, 1, k - 1)>> \o Split(SubSeq(s, k + 1, Len(s)))

\* parts.join('-')
RECURSIVE Join(_)
Join(parts) ==
  IF Len(parts) = 0 THEN <<>>
  ELSE IF Len(parts) = 1 THEN parts[1]
  ELSE parts[1] \o <<45>> \o Join(Tail(parts))

NoLink == [returned |-> FALSE, threw |-> FALSE, consulted |-> FALSE, found |-> FALSE,
           cpf |-> <<>>, filename |-> <<>>]

\* getImageLinks()[uniqueId] (lines 39-46, 70-71)
BackupOf(uniqueId, links) == {l \in links : l.uniqueId = uniqueId}

\* parts.slice(1).join('-') (line 59)
FilenameOf(parts) == Join(Tail(parts))

\* getImageLink (lines 51-78): decodes; with two parts or more the link is
\* made of the decoded text; the backup map is read in the catch block only;
\* `consulted` tells whether getImageLinks was called
getImageLink(uniqueId, links) ==
  LET decoded == atob(ReplaceAll(ReplaceAll(uniqueId, 45, 47), 95, 43))
      parts == Split(decoded.value)
  IN IF decoded.threw
     THEN IF BackupOf(uniqueId, links) # {}
          THEN LET l == CHOOSE x \in BackupOf(uniqueId, links) : TRUE
               IN [returned |-> TRUE, threw |-> FALSE, consulted |-> TRUE, found |-> TRUE,
                   cpf |-> l.cpf, filename |-> l.filename]
          ELSE [returned |-> TRUE, threw |-> FALSE, consulted |-> TRUE, found |-> FALSE,
                cpf |-> <<>>, filename |-> <<>>]
     ELSE IF Len(parts) >= 2
          THEN [returned |-> TRUE, threw |-> FALSE, consulted |-> FALSE, found |-> TRUE,
                cpf |-> parts[1], filename |-> FilenameOf(parts)]
          ELSE [returned |-> TRUE, threw |-> FALSE, consulted |-> FALSE, found |-> FALSE,
                cpf |-> <<>>, filename |-> <<>>]

\* an identifier test that accepts 16 decimal digits only
isValidUserIdDigits(userId) ==
  Len(userId) = 16 /\ \A i \in 1..Len(userId) : userId[i] \in 48..57

\* isValidUserId (userMapping lines 44-46): /^[a-f0-9]{16}$/i
isValidUserId(userId) ==
  Len(userId) = 16 /\ \A i \in 1..Len(userId) : userId[i] \in (48..57) \cup (97..102) \cup (65..70)

\* the left part of a decoded token is an owner identifier when it has the
\* shape of one, a legacy raw id otherwise
Classify(left) == IF isValidUserId(left) THEN "ownerIdentifier" ELSE "legacy"

\* tokens that were not built by uploadImage: texts without hyphen ("abc",
\* "ab", "a"), malformed base64 ("Y", "YW=j", "a b!", "YWJj-") and "a-b"
ForeignTokens ==
  { Text(<<"Y", "W", "J", "j">>), Text(<<"Y", "W", "J">>), Text(<<"Y", "Q">>),
    Text(<<"Y">>), Text(<<"Y", "W", "=", "j">>), Text(<<"a", " ", "b", "!">>),
    Text(<<"Y", "W", "J", "j", "-">>), Text(<<"Y", "S", "1", "i">>) }

IdleLink == [cpf |-> <<>>, fileName |-> <<>>, uniqueId |-> <<>>, links |-> {},
             st |-> "idle", origin |-> "none", res |-> NoLink, kind |-> "none"]

\* uploadImage builds the unique id of a stored file and saves the link in
\* the backup map (lines 164, 183-188)
BuildLink ==
  /\ link.st = "start"
  /\ link' = [link EXCEPT !.uniqueId = EncodeToken(link.cpf, link.fileName),
                          !.links = {[uniqueId |-> EncodeToken(link.cpf, link.fileName),
                                      cpf |-> link.cpf, filename |-> link.fileName]},
                          !.st = "built", !.origin = "built"]
  /\ UNCHANGED <<quota, derive, users, auth, session, wire, imageLinks, proxy, bulk, ui>>

\* a link that uploadImage did not build is about to be opened; the backup
\* map of the browser holds an entry under it, or none
ForeignLink ==
  /\ link.st = "start"
  /\ \E t \in ForeignTokens, saved \in BOOLEAN :
       link' = [link EXCEPT !.uniqueId = t,
                            !.links = IF saved
                                      THEN {[uniqueId |-> t, cpf |-> link.cpf, filename |-> link.fileName]}
                                      ELSE {},
                            !.st = "foreign", !.origin = "foreign"]
  /\ UNCHANGED <<quota, derive, users, auth, session, wire, imageLinks, proxy, bulk, ui>>

\* the viewer opens the link: getImageLink(uniqueId)
OpenLink ==
  /\ link.st \in {"built", "foreign"}
  /\ link' = [link EXCEPT !.res = getImageLink(link.uniqueId, link.links),
                          !.kind = IF getImageLink(link.uniqueId, link.links).found
                                   THEN Classify(getImageLink(link.uniqueId, link.links).cpf)
                                   ELSE "none",
                          !.st = "opened"]
  /\ UNCHANGED <<quota, derive, users, auth, session, wire, imageLinks, proxy, bulk, ui>>

\* ==================================================== the session and
\* what the client sends
\* cpf and userId of the provider, the two localStorage keys, the login calls
\* that wait for auth-user, the outcome of the login call that returned
\* last, and whether logout ran with no login invoked since
NoSession ==
  [cpf |-> <<>>, userId |-> <<>>, imageHubCpf |-> <<>>, imageHubUserId |-> <<>>,
   logins |-> {}, nlogins |-> 0, last |-> [id |-> 0, outcome |-> "none", rejected |-> FALSE],
   loggedOut |-> FALSE]

\* isAuthenticated (line 84)
isAuthenticated(s) == s.cpf # <<>> /\ s.userId # <<>>

\* the file names of the stored objects the session works on
SessionFileNames ==
  { Text(<<"1", "7", "3", "0", "-", "k", "3", "~", ".", "w", "e", "b", "p">>),
    Text(<<"p", "h", "o", "t", "o", ".", "p", "n", "g">>) }

\* a message the client sends: `raw` is the cleaned CPF of the session that
\* sent it (not part of the message), `owner` the first segment of the
\* storage path, `body` the JSON body of the login request
Message(kind, raw, owner, fileName, token, body) ==
  [kind |-> kind, raw |-> raw, owner |-> owner, fileName |-> fileName, token |-> token, body |-> body]

\* login (AuthContext lines 35-52): cleanCPF, getUserIdentifier, then the
\* request to auth-user with body {cpf_hash}; an exception of the deriver
\* leaves before any request.  Nothing keeps a second call from starting
\* while one waits
SessionLogin ==
  /\ session.nlogins < MaxLogins
  /\ \E cpfInput \in DeriveInputs :
       /\ ~getUserIdentifier(Cleaned(cpfInput)).threw
       /\ session' = [session EXCEPT
                        !.logins = @ \cup {[id |-> session.nlogins + 1, cpf |-> Cleaned(cpfInput),
                                            hash |-> getUserIdentifier(Cleaned(cpfInput)).cpfHash]},
                        !.nlogins = @ + 1, !.loggedOut = FALSE]
       /\ wire' = wire \cup {Message("auth", Cleaned(cpfInput), <<>>, <<>>, <<>>,
                                     getUserIdentifier(Cleaned(cpfInput)).cpfHash)}
  /\ UNCHANGED <<quota, derive, link, users, auth, imageLinks, proxy, bulk, ui>>

\* login called with an input the deriver refuses: it throws, nothing is
\* sent, and the catch of lines 70-73 throws again
SessionLoginThrows ==
  /\ session.nlogins < MaxLogins
  /\ \E cpfInput \in DeriveInputs : getUserIdentifier(Cleaned(cpfInput)).threw
  /\ session' = [session EXCEPT
                   !.nlogins = @ + 1, !.loggedOut = FALSE,
                   !.last = [id |-> session.nlogins + 1, outcome |-> "malformed", rejected |-> TRUE]]
  /\ UNCHANGED wire
  /\ UNCHANGED <<quota, derive, link, users, auth, imageLinks, proxy, bulk, ui>>

\* the outcomes of the request: a response with user_id, a response that is
\* not ok, an ok response without user_id
LoginOutcomes == {"ok", "notOk", "noUserId"}

\* a reply that signs the owner out when the request failed
SessionLoginReplyClearing(l, outcome) ==
  /\ l \in session.logins
  /\ session' = IF outcome = "ok"
                THEN [session EXCEPT
                        !.cpf = l.cpf, !.userId = generateUserId(l.hash),
                        !.imageHubCpf = l.cpf, !.imageHubUserId = generateUserId(l.hash),
                        !.logins = @ \ {l},
                        !.last = [id |-> l.id, outcome |-> outcome, rejected |-> FALSE]]
                ELSE [session EXCEPT
                        !.cpf = <<>>, !.userId = <<>>,
                        !.imageHubCpf = <<>>, !.imageHubUserId = <<>>,
                        !.logins = @ \ {l},
                        !.last = [id |-> l.id, outcome |-> outcome, rejected |-> TRUE]]
  /\ UNCHANGED <<quota, derive, link, users, auth, wire, imageLinks, proxy, bulk, ui>>

\* the answer of auth-user to one login call (lines 54-73): on success the
\* cleaned CPF and the user_id (cpf_hash.substring(0, 16), auth-user line 45)
\* go to the state and to localStorage, whatever happened since the call; on
\* an error the catch throws again and nothing is written
SessionLoginReply(l, outcome) ==
  /\ l \in session.logins
  /\ session' = IF outcome = "ok"
                THEN [session EXCEPT
                        !.cpf = l.cpf, !.userId = generateUserId(l.hash),
                        !.imageHubCpf = l.cpf, !.imageHubUserId = generateUserId(l.hash),
                        !.logins = @ \ {l},
                        !.last = [id |-> l.id, outcome |-> outcome, rejected |-> FALSE]]
                ELSE [session EXCEPT
                        !.logins = @ \ {l},
                        !.last = [id |-> l.id, outcome |-> outcome, rejected |-> TRUE]]
  /\ UNCHANGED <<quota, derive, link, users, auth, wire, imageLinks, proxy, bulk, ui>>

\* logout (lines 76-81), from the button of the dashboard
SessionLogout ==
  /\ isAuthenticated(session)
  /\ session' = [session EXCEPT !.cpf = <<>>, !.userId = <<>>,
                                !.imageHubCpf = <<>>, !.imageHubUserId = <<>>,
                                !.loggedOut = TRUE]
  /\ UNCHANGED <<quota, derive, link, users, auth, wire, imageLinks, proxy, bulk, ui>>

\* uploadImage(file, cpf) with the cpf of useAuth (uploader line 356):
\* filePath = `${cpf}/${fileName}` (line 160), the token of line 164, and
\* the upload call
SessionUpload ==
  /\ session.cpf # <<>>
  /\ \E fileName \in SessionFileNames :
       wire' = wire \cup {Message("upload", session.cpf, session.cpf, fileName,
                                  EncodeToken(session.cpf, fileName), <<>>)}
  /\ UNCHANGED <<quota, derive, link, users, auth, session, imageLinks, proxy, bulk, ui>>

\* listUserImages(cpf) with the cpf of useAuth (gallery line 45): list(cpf)
\* (lines 464-470), then a token per file (line 499)
SessionList ==
  /\ session.cpf # <<>>
  /\ \E fileName \in SessionFileNames :
       wire' = wire \cup {Message("list", session.cpf, session.cpf, fileName,
                                  EncodeToken(session.cpf, fileName), <<>>)}
  /\ UNCHANGED <<quota, derive, link, users, auth, session, imageLinks, proxy, bulk, ui>>

\* deleteImage(cpf, fileName) with the cpf of useAuth (gallery line 93):
\* remove([`${cpf}/${fileName}`]) (line 528)
SessionDelete ==
  /\ session.cpf # <<>>
  /\ \E fileName \in SessionFileNames :
       wire' = wire \cup {Message("remove", session.cpf, session.cpf, fileName, <<>>, <<>>)}
  /\ UNCHANGED <<quota, derive, link, users, auth, session, imageLinks, proxy, bulk, ui>>

\* ================================================= the auth-user function
\* the hashes of two CPFs
HashA == SHA256(Text(<<"5", "2", "9", "9", "8", "2", "2", "4", "7", "2", "5">>))
HashB == SHA256(Text(<<"1", "1", "1", "4", "4", "4", "7", "7", "7", "3", "5">>))

\* the bodies a client posts: the two hashes, a 64 character hexadecimal text
\* that begins like the first and ends like the second, a text of 63
\* characters, and a body without cpf_hash
AuthBodies ==
  {HashA, HashB, SubSeq(HashA, 1, 16) \o SubSeq(HashB, 17, 64), SubSeq(HashA, 1, 63), <<>>}

\* /^[a-f0-9]{64}$/i (auth-user line 29)
ValidHashFormat(h) ==
  Len(h) = 64 /\ \A i \in 1..Len(h) : h[i] \in (48..57) \cup (97..102) \cup (65..70)

\* INSERT under the constraints cpf_hash UNIQUE and user_id UNIQUE
\* (supabase_migration.sql lines 9-10)
InsertAllowed(row) ==
  \A u \in users : u.cpf_hash # row.cpf_hash /\ u.user_id # row.user_id

\* a request arrives (lines 15-52): 400 without cpf_hash or with a bad
\* format, otherwise the select on cpf_hash is issued
AuthRequest ==
  /\ Cardinality(auth) < MaxAuthRequests
  /\ \E body \in AuthBodies :
       auth' = auth \cup
         {[id |-> Cardinality(auth) + 1, cpf_hash |-> body,
           st |-> IF body = <<>> \/ ~ValidHashFormat(body) THEN "done" ELSE "select",
           status |-> IF body = <<>> \/ ~ValidHashFormat(body) THEN 400 ELSE 0,
           user_id |-> <<>>, firstSeen |-> FALSE, inserted |-> FALSE]}
  /\ UNCHANGED <<quota, derive, link, users, session, wire, imageLinks, proxy, bulk, ui>>

\* the select answers (lines 48-63, 80-85): with a row the recorded user_id
\* is returned; without one the insert of (cpf_hash, substring(0, 16)) is
\* issued
AuthSelect ==
  /\ \E r \in auth :
       /\ r.st = "select"
       /\ auth' = (auth \ {r}) \cup
            {IF \E u \in users : u.cpf_hash = r.cpf_hash
             THEN [r EXCEPT !.st = "done", !.status = 200,
                            !.user_id = (CHOOSE u \in users : u.cpf_hash = r.cpf_hash).user_id]
             ELSE [r EXCEPT !.st = "insert", !.firstSeen = TRUE]}
  /\ UNCHANGED <<quota, derive, link, users, session, wire, imageLinks, proxy, bulk, ui>>

\* the insert answers (lines 56-85): 500 on insertError, else the new row's
\* user_id is returned
AuthInsert ==
  /\ \E r \in auth :
       /\ r.st = "insert"
       /\ IF InsertAllowed([cpf_hash |-> r.cpf_hash, user_id |-> SubSeq(r.cpf_hash, 1, 16)])
          THEN /\ users' = users \cup {[cpf_hash |-> r.cpf_hash, user_id |-> SubSeq(r.cpf_hash, 1, 16)]}
               /\ auth' = (auth \ {r}) \cup
                    {[r EXCEPT !.st = "done", !.status = 200, !.inserted = TRUE,
                               !.user_id = SubSeq(r.cpf_hash, 1, 16)]}
          ELSE /\ users' = users
               /\ auth' = (auth \ {r}) \cup {[r EXCEPT !.st = "done", !.status = 500]}
  /\ UNCHANGED <<quota, derive, link, session, wire, imageLinks, proxy, bulk, ui>>

\* ======================================== the image-proxy function and the
\* route GET /image/:uniqueId
PhotoName == Text(<<"p", "h", "o", "t", "o", ".", "p", "n", "g">>)
LegacyOwner == Text(<<"5", "2", "9", "9", "8", "2", "2", "4", "7", "2", "5">>)
DerivedOwner == Text(<<"5", "f", "1", "a", "2", "b", "3", "c", "4", "d", "5", "e", "6", "f", "7", "0">>)

\* `${identifier}/${filename}`
PathOf(identifier, filename) == identifier \o <<47>> \o filename

\* the objects of the bucket: one stored under the legacy prefix and one
\* under an owner identifier
BucketObjects == {PathOf(LegacyOwner, PhotoName), PathOf(DerivedOwner, PhotoName)}

\* the tokens asked for: of the two stored objects, of an object that does
\* not exist ("ab/a"), and one that decodes to a text without hyphen ("abc")
ProxyTokens ==
  { EncodeToken(LegacyOwner, PhotoName), EncodeToken(DerivedOwner, PhotoName),
    EncodeToken(Text(<<"a", "b">>), Text(<<"a">>)), Text(<<"Y", "W", "J", "j">>) }

\* the rows image_links may hold: the two stored objects, and a row whose
\* object is gone
DirectoryRows ==
  { [unique_id |-> EncodeToken(LegacyOwner, PhotoName), file_path |-> PathOf(LegacyOwner, PhotoName)],
    [unique_id |-> EncodeToken(DerivedOwner, PhotoName), file_path |-> PathOf(DerivedOwner, PhotoName)],
    [unique_id |-> EncodeToken(Text(<<"a", "b">>), Text(<<"a">>)),
     file_path |-> PathOf(Text(<<"a", "b">>), Text(<<"a">>))] }

\* Buffer.from(text, 'base64'): characters outside the alphabet are skipped,
\* the text ends at the first "=", nothing throws
BufferFromBase64(s) ==
  DecodeGroups(SelectSeq(
    SubSeq(s, 1, IF \E i \in 1..Len(s) : s[i] = 61
                 THEN (CHOOSE i \in 1..Len(s) : s[i] = 61 /\ \A j \in 1..(i - 1) : s[j] # 61) - 1
                 ELSE Len(s)),
    LAMBDA c : B64Val(c) # -1))

\* the parts of the fallback (route lines 245-246)
LegacyParts(uniqueId) == Split(BufferFromBase64(ReplaceAll(ReplaceAll(uniqueId, 45, 47), 95, 43)))

\* the path of the fallback (lines 249-251)
LegacyPath(uniqueId) ==
  PathOf(LegacyParts(uniqueId)[1], Join(Tail(LegacyParts(uniqueId))))

\* a route that answers 404 whenever the directory has no row
AfterLookupNoFallback(r, found, rows) ==
  IF found
  THEN [r EXCEPT !.st = "download", !.resolved = TRUE,
                 !.path = (CHOOSE l \in rows : l.unique_id = r.unique_id).file_path]
  ELSE [r EXCEPT !.st = "done", !.status = 404]

\* what the handler does with the answer of the lookup: image-proxy answers
\* 404 without a row (lines 40-48); the route tries the decoded path first
\* (lines 242-271); with a row both download its file_path
AfterLookup(r, found, rows) ==
  IF found
  THEN [r EXCEPT !.st = "download", !.resolved = TRUE,
                 !.path = (CHOOSE l \in rows : l.unique_id = r.unique_id).file_path]
  ELSE IF r.handler = "route" /\ Len(LegacyParts(r.unique_id)) >= 2
  THEN [r EXCEPT !.st = "legacy", !.path = LegacyPath(r.unique_id)]
  ELSE [r EXCEPT !.st = "done", !.status = 404]

\* a retrieval request arrives: 400 without token, else the lookup in
\* image_links is issued
ProxyRequest ==
  /\ Cardinality(proxy) < MaxProxyRequests
  /\ \E h \in {"image-proxy", "route"}, t \in ProxyTokens \cup {<<>>} :
       proxy' = proxy \cup
         {[id |-> Cardinality(proxy) + 1, handler |-> h, unique_id |-> t,
           st |-> IF t = <<>> THEN "done" ELSE "lookup",
           status |-> IF t = <<>> THEN 400 ELSE 0,
           bytes |-> FALSE, resolved |-> FALSE, readFailed |-> FALSE, path |-> <<>>]}
  /\ UNCHANGED <<quota, derive, link, users, auth, session, wire, imageLinks, bulk, ui>>

\* the lookup answers, with the row, without one, or with an error
ProxyLookup ==
  /\ \E r \in proxy, dbOk \in BOOLEAN :
       /\ r.st = "lookup"
       /\ proxy' = (proxy \ {r}) \cup
            {AfterLookup(r, dbOk /\ \E l \in imageLinks : l.unique_id = r.unique_id, imageLinks)}
  /\ UNCHANGED <<quota, derive, link, users, auth, session, wire, imageLinks, bulk, ui>>

\* the download answers: the bytes go out with 200; a failed read of a
\* directory path gives 500 (proxy lines 56-65, route lines 279-282), a
\* failed read of a decoded path gives 404 (route lines 258-271)
ProxyDownload ==
  /\ \E r \in proxy, readOk \in BOOLEAN :
       /\ r.st \in {"download", "legacy"}
       /\ proxy' = (proxy \ {r}) \cup
            {IF readOk /\ r.path \in BucketObjects
             THEN [r EXCEPT !.st = "done", !.status = 200, !.bytes = TRUE]
             ELSE [r EXCEPT !.st = "done", !.readFailed = TRUE,
                            !.status = IF r.st = "download" THEN 500 ELSE 404]}
  /\ UNCHANGED <<quota, derive, link, users, auth, session, wire, imageLinks, bulk, ui>>

\* ==================================================== deleteMultipleImages
\* the file names of the owner's folder
BulkNames == {"a.webp", "b.webp", "c.webp"}

\* st: idle, sent (the remove call is out), replied, done.  store is the
\* owner's folder; removed and error are the answer of the backend (data and
\* error); deleted counts the objects the call took out of the folder
IdleBulk ==
  [st |-> "idle", store |-> {}, fileNames |-> {}, called |-> FALSE, error |-> FALSE,
   removed |-> 0, deleted |-> 0, ret |-> 0, calls |-> 0]

\* return data?.length || fileNames.length (line 606), 0 on an error (577-580)
ReturnedCount(error, dataLength, requested) ==
  IF error THEN 0
  ELSE IF dataLength # 0 THEN dataLength ELSE requested

\* deleteMultipleImages(cpf, fileNames) up to the remove call (lines 563-575):
\* 0 at once for an empty list
DeleteMultipleImages ==
  /\ bulk.st \in {"idle", "done"}
  /\ bulk.calls < MaxBulkCalls
  /\ \E fileNames \in SUBSET BulkNames :
       bulk' = IF fileNames = {}
               THEN [bulk EXCEPT !.st = "done", !.fileNames = {}, !.called = FALSE, !.error = FALSE,
                                 !.removed = 0, !.deleted = 0, !.ret = 0, !.calls = @ + 1]
               ELSE [bulk EXCEPT !.st = "sent", !.fileNames = fileNames, !.called = TRUE,
                                 !.error = FALSE, !.removed = 0, !.deleted = 0, !.ret = 0,
                                 !.calls = @ + 1]
  /\ UNCHANGED <<quota, extra, ui>>

\* a file leaves the folder by another way (deleteImage of line 526, another
\* tab) while it is still selected in the gallery
BulkOtherDelete ==
  /\ \E f \in bulk.store : bulk' = [bulk EXCEPT !.store = @ \ {f}]
  /\ UNCHANGED <<quota, extra, ui>>

\* the backend answers the remove call: it removes the requested objects
\* that exist and reports them in data, or fails with an error
BulkReply ==
  /\ bulk.st = "sent"
  /\ \E ok \in BOOLEAN :
       bulk' = IF ok
               THEN [bulk EXCEPT !.st = "replied", !.store = @ \ bulk.fileNames,
                                 !.removed = Cardinality(bulk.fileNames \cap bulk.store),
                                 !.deleted = Cardinality(bulk.fileNames \cap bulk.store)]
               ELSE [bulk EXCEPT !.st = "replied", !.error = TRUE]
  /\ UNCHANGED <<quota, extra, ui>>

\* deleteMultipleImages after the remove call (lines 577-606): the owner's
\* cache is invalidated and the count returned
BulkSettle ==
  /\ bulk.st = "replied"
  /\ bulk' = [bulk EXCEPT !.st = "done",
                          !.ret = ReturnedCount(bulk.error, bulk.removed, Cardinality(bulk.fileNames))]
  /\ IF bulk.error
     THEN UNCHANGED <<userImagesCache, pendingRequests>>
     ELSE /\ userImagesCache' = InvalidatedCache(cpf)
          /\ pendingRequests' = InvalidatedPending(cpf)
  /\ UNCHANGED <<now, cpf, storage, fetches, nextFetch, queries, rets, batch, nbatches, prev,
                 uploads, removes, nremoves, acked>>
  /\ UNCHANGED <<extra, ui>>


\* ============================================================ ImageViewer
\* the uniqueId of the route: two tokens, or none
ViewerTokens == {EncodeToken(LegacyOwner, PhotoName), EncodeToken(DerivedOwner, PhotoName), <<>>}

\* hasRequested is hasRequestedRef.current; active is the effect run that
\* was not cleaned up yet (0: none); runs are the effect runs so far, each
\* with its own isMounted and the position of its loadImage: skipped (the
\* guard returned), link (awaiting getImageLink), proxy (awaiting the fetch
\* of image-proxy), fallback (awaiting the direct download), done.
\* immediate tells that the run before it had not got past its first await
\* when this one started
IdleViewer ==
  [hasRequested |-> FALSE, active |-> 0, runs |-> {}, imageUrl |-> FALSE, error |-> FALSE,
   loading |-> TRUE]

\* the cleanup of the effect (lines 108-117): isMounted = false, the image
\* is cleared, and hasRequestedRef.current = false
CleanedUp(v) ==
  [v EXCEPT !.active = 0, !.imageUrl = FALSE, !.hasRequested = FALSE,
            !.runs = {IF r.id = v.active THEN [r EXCEPT !.isMounted = FALSE] ELSE r : r \in v.runs}]

\* the effect runs for uniqueId (lines 17-30, 105): the guard, then
\* "Link inválido" without uniqueId, else loadImage up to await getImageLink
ViewerEffect ==
  /\ viewer.active = 0
  /\ Cardinality(viewer.runs) < MaxEffectRuns
  /\ \E t \in ViewerTokens :
       LET n == Cardinality(viewer.runs) + 1
           run == [id |-> n, uniqueId |-> t, isMounted |-> TRUE, st |-> "skipped",
                   immediate |-> \E p \in viewer.runs : p.id = n - 1 /\ p.st \in {"link", "skipped"}]
       IN viewer' =
            IF viewer.hasRequested
            THEN [viewer EXCEPT !.active = n, !.runs = @ \cup {run}]
            ELSE IF t = <<>>
            THEN [viewer EXCEPT !.active = n, !.hasRequested = TRUE, !.error = TRUE, !.loading = FALSE,
                                !.runs = @ \cup {[run EXCEPT !.st = "done"]}]
            ELSE [viewer EXCEPT !.active = n, !.hasRequested = TRUE, !.loading = TRUE,
                                !.runs = @ \cup {[run EXCEPT !.st = "link"]}]
  /\ UNCHANGED <<quota, extra, bulk, gallery, local>>

\* the cleanup runs: the component unmounts, uniqueId changes, or StrictMode
\* replays the effect
ViewerCleanup ==
  /\ viewer.active # 0
  /\ viewer' = CleanedUp(viewer)
  /\ UNCHANGED <<quota, extra, bulk, gallery, local>>

\* getImageLink answers (lines 36-60): without a link the error is shown,
\* with one the request to image-proxy is sent
ViewerLink ==
  /\ \E r \in viewer.runs, found \in BOOLEAN :
       /\ r.st = "link"
       /\ viewer' = IF found
                    THEN [viewer EXCEPT !.runs = (@ \ {r}) \cup {[r EXCEPT !.st = "proxy"]}]
                    ELSE [viewer EXCEPT !.runs = (@ \ {r}) \cup {[r EXCEPT !.st = "done"]},
                                        !.error = TRUE, !.loading = FALSE]
  /\ UNCHANGED <<quota, extra, bulk, gallery, local>>

\* what a run shows when its image arrived (lines 69-71, 90-92, 98-102)
Shown(v, r) ==
  IF r.isMounted
  THEN [v EXCEPT !.runs = (@ \ {r}) \cup {[r EXCEPT !.st = "done"]}, !.imageUrl = TRUE, !.loading = FALSE]
  ELSE [v EXCEPT !.runs = (@ \ {r}) \cup {[r EXCEPT !.st = "done"]}]

\* image-proxy answers (lines 62-82): the blob is shown, or the direct
\* download is tried
ViewerProxy ==
  /\ \E r \in viewer.runs, ok \in BOOLEAN :
       /\ r.st = "proxy"
       /\ viewer' = IF ok
                    THEN Shown(viewer, r)
                    ELSE [viewer EXCEPT !.runs = (@ \ {r}) \cup {[r EXCEPT !.st = "fallback"]}]
  /\ UNCHANGED <<quota, extra, bulk, gallery, local>>

\* the direct download answers (lines 84-102)
ViewerFallback ==
  /\ \E r \in viewer.runs, ok \in BOOLEAN :
       /\ r.st = "fallback"
       /\ viewer' = IF ok
                    THEN Shown(viewer, r)
                    ELSE IF r.isMounted
                    THEN [viewer EXCEPT !.runs = (@ \ {r}) \cup {[r EXCEPT !.st = "done"]},
                                        !.error = TRUE, !.loading = FALSE]
                    ELSE [viewer EXCEPT !.runs = (@ \ {r}) \cup {[r EXCEPT !.st = "done"]}]
  /\ UNCHANGED <<quota, extra, bulk, gallery, local>>

\* ================================================== the gallery component
\* the file names of the owner's folder, in the order of the listing
\* (created_at descending); the uniqueId of an image is a one-to-one function
\* of its file name (line 499), so an image is named by its file name
GalleryFiles == <<"a", "b", "c">>

\* totalImages === null (line 27)
NoTotal == 0 - 1

SeqRange(s) == {s[i] : i \in 1..Len(s)}
Without(s, names) == SelectSeq(s, LAMBDA n : n \notin names)
Ceil(n, d) == (n + d - 1) \div d

\* list(cpf, {limit, offset}) (imageService lines 464-470) over the folder
PageOf(folder, page) ==
  LET offset == (page - 1) * ItemsPerPage IN
  SubSeq(folder, offset + 1, IF offset + ItemsPerPage <= Len(folder) THEN offset + ItemsPerPage
                                                                     ELSE Len(folder))

\* images.filter((_, i) => i !== displayIndex) (line 99), indices from 1
FilterIndex(s, displayIndex) ==
  [i \in 1..(Len(s) - (IF displayIndex \in 1..Len(s) THEN 1 ELSE 0)) |->
     IF i < displayIndex THEN s[i] ELSE s[i + 1]]

NoBulkDelete == [st |-> "idle", fileNames |-> <<>>, totalImages |-> NoTotal, currentPage |-> 1]

\* the component after its first render and effect (lines 19-29, 82-84):
\* loadImages has set loading and waits for its listing of page 1.
\* loads, deletes and bulkDelete are the calls that wait for the storage,
\* each with the values its closure captured.  returned is the result of the
\* resolved listing request that was issued last, with the files deleted one
\* by one since; since is totalImages after the last listing or bulk
\* deletion, with the files deleted one by one since
IdleGallery ==
  [folder |-> GalleryFiles, images |-> <<>>, loading |-> TRUE, currentPage |-> 1,
   hasMore |-> FALSE, totalImages |-> NoTotal, selectedMap |-> {}, deletingId |-> 0,
   isBulkDeleting |-> FALSE,
   loads |-> {[id |-> 1, page |-> 1, bulk |-> FALSE]}, nloads |-> 1,
   deletes |-> {}, ndeletes |-> 0, bulkDelete |-> NoBulkDelete, nbulk |-> 0,
   returned |-> [id |-> 0, page |-> 0, images |-> <<>>, removed |-> {}],
   since |-> [total |-> NoTotal, singles |-> {}]]

\* the controls of lines 283-560 are rendered: not the spinner of lines
\* 253-262 and not the empty view of lines 264-281
Rendered(g) == ~g.loading /\ g.images # <<>>

\* the requests that can still call loadImages when they resolve
MayLoad(g) == g.nloads + Cardinality(g.deletes) + (IF g.bulkDelete.st = "idle" THEN 0 ELSE 1)

\* loadImages up to its await (lines 31-46) with the currentPage of its
\* closure
CallLoadImages(g, page, awaited) ==
  [g EXCEPT !.loading = TRUE, !.nloads = @ + 1,
            !.loads = @ \cup {[id |-> g.nloads + 1, page |-> page, bulk |-> awaited]}]

\* setCurrentPage(page): a changed page renders again, loadImages is made
\* anew (line 80) and the effect of lines 82-84 calls it
SetCurrentPage(g, page) ==
  IF page = g.currentPage THEN g
  ELSE CallLoadImages([g EXCEPT !.currentPage = page], page, FALSE)

\* totalPages (line 217)
TotalPages(g) == IF g.totalImages = NoTotal THEN 0 ELSE Ceil(g.totalImages, ItemsPerPage)

\* the pages the controls of lines 455-560 lead to: handlePrev, handleNext
\* and handlePageChange with their guards and the disabled attributes
PageTargets(g) ==
  IF g.totalImages = NoTotal
  THEN {p \in {g.currentPage - 1, g.currentPage + 1} :
          \/ p = g.currentPage - 1 /\ g.currentPage > 1
          \/ p = g.currentPage + 1 /\ g.hasMore}
  ELSE IF TotalPages(g) > 1
  THEN {p \in (1..TotalPages(g)) \cup {g.currentPage - 1, g.currentPage + 1} :
          \/ p \in 1..TotalPages(g) /\ p # g.currentPage
          \/ p = g.currentPage - 1 /\ g.currentPage > 1
          \/ p = g.currentPage + 1 /\ g.hasMore /\ g.currentPage < TotalPages(g)}
  ELSE {}

\* loadImages after its await (lines 43-78): countUserImages on page 1 and
\* listUserImages answer together; a failed listing is an empty list
\* (imageService lines 472-474).  Nothing compares the answer with the
\* requests made since
LoadImagesReply(l, ok) ==
  LET imageData == IF ok THEN PageOf(gallery.folder, l.page) ELSE <<>>
      total == IF l.page = 1 THEN (IF ok THEN Len(gallery.folder) ELSE 0) ELSE gallery.totalImages
  IN
  /\ l \in gallery.loads
  /\ gallery' = [gallery EXCEPT
                   !.totalImages = total,
                   !.images = imageData,
                   !.hasMore = (Len(imageData) = ItemsPerPage),
                   !.selectedMap = @ \cap SeqRange(imageData),
                   !.loading = FALSE,
                   !.loads = @ \ {l},
                   !.isBulkDeleting = IF l.bulk THEN FALSE ELSE @,
                   !.bulkDelete = IF l.bulk THEN NoBulkDelete ELSE @,
                   !.returned = IF l.id > @.id
                                THEN [id |-> l.id, page |-> l.page, images |-> imageData, removed |-> {}]
                                ELSE @,
                   !.since = [total |-> total, singles |-> {}]]
  /\ UNCHANGED <<quota, extra, bulk, viewer, local>>

\* the button 'Atualizar' (line 309)
Refresh ==
  /\ Rendered(gallery) /\ MayLoad(gallery) < MaxLoads
  /\ gallery' = CallLoadImages(gallery, gallery.currentPage, FALSE)
  /\ UNCHANGED <<quota, extra, bulk, viewer, local>>

\* handlePrev, handleNext, handlePageChange (lines 232-251)
PageChange(page) ==
  /\ Rendered(gallery) /\ MayLoad(gallery) < MaxLoads
  /\ page \in PageTargets(gallery)
  /\ gallery' = SetCurrentPage(gallery, page)
  /\ UNCHANGED <<quota, extra, bulk, viewer, local>>

\* toggleSelect (lines 141-148), from the checkbox of a displayed image
ToggleSelect(uniqueId) ==
  /\ Rendered(gallery) /\ uniqueId \in SeqRange(gallery.images)
  /\ gallery' = [gallery EXCEPT !.selectedMap = IF uniqueId \in @ THEN @ \ {uniqueId}
                                                                   ELSE @ \cup {uniqueId}]
  /\ UNCHANGED <<quota, extra, bulk, viewer, local>>

\* selectAllCurrentPage (lines 150-156)
SelectAllCurrentPage ==
  /\ Rendered(gallery)
  /\ gallery' = [gallery EXCEPT !.selectedMap = @ \cup SeqRange(gallery.images)]
  /\ UNCHANGED <<quota, extra, bulk, viewer, local>>

\* clearSelection (line 158), from the bar of lines 316-339
ClearSelection ==
  /\ Rendered(gallery) /\ gallery.selectedMap # {}
  /\ gallery' = [gallery EXCEPT !.selectedMap = {}]
  /\ UNCHANGED <<quota, extra, bulk, viewer, local>>

\* handleDelete up to its await (lines 86-93); the button of an image is
\* disabled only while deletingId is its index (line 432)
HandleDelete(displayIndex) ==
  /\ Rendered(gallery) /\ MayLoad(gallery) < MaxLoads
  /\ gallery.ndeletes < MaxGalleryDeletes
  /\ displayIndex \in 1..Len(gallery.images)
  /\ gallery.deletingId # displayIndex
  /\ gallery' = [gallery EXCEPT
                   !.deletingId = displayIndex,
                   !.ndeletes = @ + 1,
                   !.deletes = @ \cup {[id |-> gallery.ndeletes + 1, displayIndex |-> displayIndex,
                                        filename |-> gallery.images[displayIndex],
                                        images |-> gallery.images,
                                        totalImages |-> gallery.totalImages,
                                        currentPage |-> gallery.currentPage]}]
  /\ UNCHANGED <<quota, extra, bulk, viewer, local>>

\* the page handleDelete moves to (lines 102-111), from the values of its
\* closure; 0 when it stays
PageAfterDelete(d) ==
  IF d.totalImages = NoTotal THEN 0
  ELSE IF d.currentPage > Ceil(d.totalImages - 1, ItemsPerPage) /\ Ceil(d.totalImages - 1, ItemsPerPage) > 0
  THEN Ceil(d.totalImages - 1, ItemsPerPage)
  ELSE IF Len(d.images) = 1 /\ d.currentPage > 1 THEN d.currentPage - 1
  ELSE 0

\* handleDelete after deleteImage returned true (lines 94-116, 123):
\* totalImages, images and currentPage are those of the render the button was
\* pressed in
Deleted(g, d) ==
  LET g1 == [g EXCEPT !.totalImages = IF d.totalImages # NoTotal /\ d.totalImages > 0
                                      THEN d.totalImages - 1 ELSE @,
                      !.images = FilterIndex(d.images, d.displayIndex),
                      !.deletingId = 0]
  IN IF PageAfterDelete(d) = 0 THEN g1 ELSE SetCurrentPage(g1, PageAfterDelete(d))

\* deleteImage answers handleDelete (lines 93-124); removing an object that
\* is gone already is no error of the storage
DeleteReply(d, ok) ==
  /\ d \in gallery.deletes
  /\ gallery' =
       IF ok
       THEN [Deleted(gallery, d) EXCEPT
               !.folder = Without(@, {d.filename}),
               !.deletes = @ \ {d},
               !.returned.removed = @ \cup {d.filename},
               !.since.singles = @ \cup {d.filename}]
       ELSE [gallery EXCEPT !.deletingId = 0, !.deletes = @ \ {d}]
  /\ UNCHANGED <<quota, extra, bulk, viewer, local>>

\* handleBulkDelete up to its await (lines 162-172), from the bar of lines
\* 316-339
HandleBulkDelete ==
  /\ Rendered(gallery) /\ MayLoad(gallery) < MaxLoads
  /\ gallery.nbulk < MaxGalleryBulk
  /\ gallery.selectedMap # {} /\ ~gallery.isBulkDeleting
  /\ gallery' = [gallery EXCEPT
                   !.isBulkDeleting = TRUE,
                   !.nbulk = @ + 1,
                   !.bulkDelete = [st |-> "deleting", fileNames |-> gallery.selectedMap,
                                   totalImages |-> gallery.totalImages,
                                   currentPage |-> gallery.currentPage]]
  /\ UNCHANGED <<quota, extra, bulk, viewer, local>>

\* handleBulkDelete after a positive successCount (lines 174-194): the
\* selection is emptied, then setCurrentPage, or loadImages with the page of
\* its closure, which it awaits
BulkDeleted(g, b) ==
  LET successCount == Cardinality(b.fileNames)
      newTotal == Max(0, b.totalImages - successCount)
      g1 == [g EXCEPT !.selectedMap = {},
                      !.totalImages = IF b.totalImages # NoTotal THEN newTotal ELSE @]
  IN IF b.totalImages # NoTotal /\ b.currentPage > Ceil(newTotal, ItemsPerPage)
        /\ Ceil(newTotal, ItemsPerPage) > 0
     THEN [SetCurrentPage(g1, Ceil(newTotal, ItemsPerPage)) EXCEPT
             !.isBulkDeleting = FALSE, !.bulkDelete = NoBulkDelete]
     ELSE [CallLoadImages(g1, b.currentPage, TRUE) EXCEPT !.bulkDelete.st = "reloading"]

\* deleteMultipleImages answers handleBulkDelete (lines 172-213)
BulkDeleteReply(ok) ==
  /\ gallery.bulkDelete.st = "deleting"
  /\ gallery' =
       IF ok
       THEN [BulkDeleted(gallery, gallery.bulkDelete) EXCEPT
               !.folder = Without(@, gallery.bulkDelete.fileNames),
               !.since = [total |-> BulkDeleted(gallery, gallery.bulkDelete).totalImages,
                          singles |-> {}]]
       ELSE [gallery EXCEPT !.isBulkDeleting = FALSE, !.bulkDelete = NoBulkDelete]
  /\ UNCHANGED <<quota, extra, bulk, viewer, local>>


\* the components of the pages at rest
InitUi ==
  /\ gallery = IdleGallery
  /\ viewer = IdleViewer
  /\ local = IdleLocal

\* ------------------------------------------------------------------- Init
Bag(small, big) == [s \in FileSizes |-> IF s = SmallFile THEN small ELSE big]
\* what the first owner has stored at the start: nothing, one image short of
\* the count limit, or one large image short of the byte limit
InitFiles ==
  {EmptyBag, Bag(MAX_IMAGES_PER_USER - 1, 0), Bag(0, (MaxBytes \div BigFile) - 1)}

InitQuota(fs) ==
  /\ now = 0
  /\ cpf = "u1"
  /\ storage = [o \in Owners |-> [files |-> IF o = "u1" THEN fs ELSE EmptyBag, ver |-> 0]]
  /\ userImagesCache = {}
  /\ pendingRequests = [o \in Owners |-> 0]
  /\ fetches = {}
  /\ nextFetch = 0
  /\ queries = {}
  /\ rets = {}
  /\ batch = IdleBatch
  /\ nbatches = 0
  /\ prev = NoPrev
  /\ uploads = {}
  /\ removes = {}
  /\ nremoves = 0
  /\ acked = [o \in Owners |-> 0]

\* the other components at rest
InitExtra ==
  /\ derive = IdleDerive
  /\ link = IdleLink
  /\ users = {}
  /\ auth = {}
  /\ session = NoSession
  /\ wire = {}
  /\ imageLinks = {}
  /\ proxy = {}

Init ==
  /\ \E fs \in InitFiles : InitQuota(fs)
  /\ InitExtra
  /\ bulk = IdleBulk /\ InitUi

Next ==
  \/ \E op \in QueryOps : Query(op)
  \/ \E f \in fetches, ok \in BOOLEAN : ListReply(f, ok)
  \/ \E f \in fetches : FetchSettle(f)
  \/ \E files \in BatchInputs : HandleFiles(files)
  \/ CanUploadCompress
  \/ \E files \in BatchInputs : UploadMultipleImages(files)
  \/ \E u \in uploads : UploadCompress(u)
  \/ \E u \in uploads, ok \in BOOLEAN : UploadReply(u, ok)
  \/ \E u \in uploads : UploadSettle(u)
  \/ \E s \in FileSizes : DeleteImage(s)
  \/ \E r \in removes, ok \in BOOLEAN : RemoveReply(r, ok)
  \/ \E r \in removes : RemoveSettle(r)
  \/ \E t \in TimePoints : Tick(t)
  \/ \E o \in Owners : Login(o)

Spec == Init /\ [][Next]_vars

\* ------------------------------------------- component specifications
\* The composition above is explored through three components, each closed
\* under the actions that touch the state its properties speak of.

\* the listing cache of one session under queries, deletions and the clock
NextCache ==
  \/ \E op \in QueryOps : Query(op)
  \/ \E f \in fetches, ok \in BOOLEAN : ListReply(f, ok)
  \/ \E f \in fetches : FetchSettle(f)
  \/ \E s \in FileSizes : DeleteImage(s)
  \/ \E r \in removes, ok \in BOOLEAN : RemoveReply(r, ok)
  \/ \E r \in removes : RemoveSettle(r)
  \/ \E t \in TimePoints : Tick(t)

SpecCache == Init /\ [][NextCache]_vars

\* the uploader's batches: admission by canUploadImages, then the uploads
NextAdmit ==
  \/ \E f \in fetches, ok \in BOOLEAN : ListReply(f, ok)
  \/ \E f \in fetches : FetchSettle(f)
  \/ \E files \in BatchInputs : HandleFiles(files)
  \/ CanUploadCompress
  \/ \E u \in uploads, ok \in BOOLEAN : UploadReply(u, ok)
  \/ \E u \in uploads : UploadSettle(u)

SpecAdmit == Init /\ [][NextAdmit]_vars

\* everything that changes what an owner has stored
NextQuota ==
  \/ \E f \in fetches, ok \in BOOLEAN : ListReply(f, ok)
  \/ \E f \in fetches : FetchSettle(f)
  \/ \E files \in BatchInputs : HandleFiles(files)
  \/ CanUploadCompress
  \/ \E files \in BatchInputs : UploadMultipleImages(files)
  \/ \E u \in uploads : UploadCompress(u)
  \/ \E u \in uploads, ok \in BOOLEAN : UploadReply(u, ok)
  \/ \E u \in uploads : UploadSettle(u)
  \/ \E s \in FileSizes : DeleteImage(s)
  \/ \E r \in removes, ok \in BOOLEAN : RemoveReply(r, ok)
  \/ \E r \in removes : RemoveSettle(r)
  \/ \E t \in TimePoints : Tick(t)

SpecQuota == Init /\ [][NextQuota]_vars

\* ===================================================== properties: the cache
\* (properties of SpecCache)

\* C1: once an upload or delete has returned success for an owner, every usage
\* query of that owner started afterwards returns a count and a byte total
\* computed from a listing that includes the mutation (a listing at least as
\* recent as the last mutation acknowledged when the query started), also
\* inside the 5 s window and when a list call was in flight at that moment.
\* Stated for the queries whose listing succeeded.
C1_UsageReflectsAckedMutations ==
  \A r \in rets : r.ok => r.ver >= r.ack

\* C2: at no time does an owner have more than one storage list call
\* outstanding, whatever invalidations and settlements came before.
C2_OneListCallPerOwner ==
  \A o \in Owners : Cardinality({f \in fetches : f.cpf = o}) <= 1

\* C3: a marker always names an outstanding list call of its owner, the
\* settlement of a list call leaves no marker naming it, and the settlement of
\* one list call never removes the marker of another list call of the owner
\* that is still outstanding.
C3_MarkerFollowsItsFetch ==
  [][ /\ \A o \in Owners :
           pendingRequests[o] # 0 => \E f \in fetches : f.cpf = o /\ f.id = pendingRequests[o]
      /\ \A f \in fetches :
           (\A g \in fetches' : g.id # f.id) =>
             /\ pendingRequests'[f.cpf] # f.id
             /\ \A g \in fetches' :
                  (g.cpf = f.cpf /\ pendingRequests[f.cpf] = g.id) => pendingRequests'[f.cpf] = g.id
    ]_vars

\* a snapshot of owner c that is less than CACHE_TTL old
FreshSnapshot(c) ==
  \E e \in userImagesCache : e.cpf = c /\ now - e.timestamp >= 0 /\ now - e.timestamp <= CACHE_TTL - 1

\* C5: with a fresh snapshot of the owner (age under 5000 ms, not invalidated),
\* countUserImages and getUserStorageUsage answer from the snapshot: no storage
\* list call is issued, the snapshot stays as it is, and the result is the
\* count / byte total of the snapshot's list.
C5_FreshSnapshotServes ==
  [][ \A op \in {"countUserImages", "getUserStorageUsage"} :
        (Query(op) /\ FreshSnapshot(cpf)) =>
          /\ nextFetch' = nextFetch /\ fetches' = fetches
          /\ pendingRequests' = pendingRequests
          /\ userImagesCache' = userImagesCache
          /\ \E e \in userImagesCache :
               /\ e.cpf = cpf
               /\ rets' = {[op |-> op, cpf |-> cpf,
                            count |-> DataLength(e.data.files),
                            bytes |-> IF op = "countUserImages" THEN 0 ELSE TotalBytes(e.data.files),
                            ver |-> e.data.ver, ok |-> e.data.ok, ack |-> acked[cpf], hit |-> TRUE]}
    ]_vars

\* a count or usage query has just been answered from a snapshot that holds
\* files, at a time past 0
C5_Witness ==
  \E r \in rets :
    /\ r.hit /\ r.op \in {"countUserImages", "getUserStorageUsage"}
    /\ r.count > 0 /\ now > 0 /\ FreshSnapshot(r.cpf)

\* ================================================== properties: admission
\* (properties of SpecAdmit)

\* the batch went through canUploadImages and has its decision
Decided == batch.entry = "handleFiles" /\ batch.decision.made

\* no storage upload call was issued for the batch
NoUploadCall == uploads = {} /\ batch.succeeded = 0 /\ batch.failed = 0

\* canUploadImages is called again for the same owner and files, no upload or
\* delete in between (the decision before was a refusal), while a snapshot
\* less than CACHE_TTL old exists
CalledTwice ==
  /\ Decided /\ prev.made
  /\ prev.cpf = batch.cpf /\ prev.files = batch.files
  /\ ~prev.decision.canUpload
  /\ batch.fresh

\* C4 as stated: two calls of canUploadImages in succession, within the
\* freshness window and with no upload or delete in between, return the same
\* decision and the second issues no storage list call.
C4_SecondCallUsesSnapshot ==
  CalledTwice => (batch.decision = prev.decision /\ batch.fmode # "new")

\* C4: canUploadImages does not read the snapshot: the second call issues a
\* storage list call of its own (or joins one already pending), also inside
\* the freshness window, and decides on what that call returns; when it
\* returns the list the first call saw, the decision is the same.
C4_SecondCallListsAgain ==
  CalledTwice =>
    /\ batch.fmode # "hit" /\ batch.fetch # 0
    /\ batch.info = prev.info => batch.decision = prev.decision

\* the second call has decided on the same list, with files stored
C4_Witness ==
  CalledTwice /\ batch.info = prev.info /\ batch.info.ok /\ batch.info.count > 0

\* C6: when the count canUploadImages observed plus the number of new files
\* exceeds MAX_IMAGES_PER_USER, it refuses with reason 'count' before any file
\* is compressed, and the uploader issues no storage upload call for the batch.
C6_CountRefusedBeforeCompression ==
  (/\ batch.entry = "handleFiles" /\ batch.st \notin {"idle", "listing"}
   /\ batch.info.count + Len(batch.files) > MAX_IMAGES_PER_USER)
  => /\ batch.st = "rejected"
     /\ ~batch.decision.canUpload /\ batch.decision.reason = "count"
     /\ batch.decision.currentCount = batch.info.count
     /\ batch.decision.compressed = 0
     /\ NoUploadCall

\* a batch of two files refused on the count with 99 images stored
C6_Witness ==
  /\ Decided /\ batch.st = "rejected" /\ batch.decision.reason = "count"
  /\ batch.info.ok /\ batch.info.count = MAX_IMAGES_PER_USER - 1 /\ Len(batch.files) = 2
  /\ batch.decision.compressed = 0

\* the compression of at least one file of the batch fails
SomeCompressionFails == \E i \in 1..Len(batch.files) : ~compressImage(batch.files[i]).ok

\* C7: when the count check passes and the compression of at least one file
\* fails, canUploadImages returns canUpload = false without a size verdict
\* (no size, compressed or original, of the batch is compared with the limit),
\* and no file of the batch is uploaded.
C7_CompressionFailureRefuses ==
  (/\ batch.entry = "handleFiles" /\ batch.st \notin {"idle", "listing", "compress"}
   /\ batch.info.count + Len(batch.files) <= MAX_IMAGES_PER_USER
   /\ SomeCompressionFails)
  => /\ batch.st = "rejected"
     /\ ~batch.decision.canUpload /\ batch.decision.reason # "storage"
     /\ NoUploadCall

\* a batch with one file that compresses and one that does not was refused
C7_Witness ==
  /\ Decided /\ batch.st = "rejected" /\ batch.decision.compressed = 2
  /\ SomeCompressionFails /\ \E i \in 1..Len(batch.files) : compressImage(batch.files[i]).ok

\* the sum of the compressed sizes of the batch
CompressedTotal == SumSizes([i \in 1..Len(batch.files) |-> compressImage(batch.files[i])])

\* C8: when the count check passes and every file compresses, canUploadImages
\* refuses with reason 'storage' exactly when the observed bytes plus the sum
\* of the compressed sizes exceed the limit (a sum equal to the limit is
\* admitted); the available storage of a refusal is the limit minus the
\* observed bytes; otherwise it admits and returns the observed count and
\* bytes with the two limits.
C8_StorageDecision ==
  (/\ Decided
   /\ batch.info.count + Len(batch.files) <= MAX_IMAGES_PER_USER
   /\ ~SomeCompressionFails)
  => LET d == batch.decision
         over == batch.info.bytes + CompressedTotal > MAX_STORAGE_PER_USER_MB * MB
     IN /\ (~d.canUpload /\ d.reason = "storage") <=> over
        /\ over => d.availableBytes = MAX_STORAGE_PER_USER_MB * MB - batch.info.bytes
        /\ ~over => /\ d.canUpload
                    /\ d.currentCount = batch.info.count /\ d.maxCount = MAX_IMAGES_PER_USER
                    /\ d.currentBytes = batch.info.bytes
                    /\ d.maxBytes = MAX_STORAGE_PER_USER_MB * MB

\* a batch that fills the limit exactly was admitted
C8_Witness ==
  /\ Decided /\ batch.decision.canUpload /\ batch.info.ok /\ ~SomeCompressionFails
  /\ batch.info.bytes > 0
  /\ batch.info.bytes + CompressedTotal = MAX_STORAGE_PER_USER_MB * MB

\* C10: when the listing behind canUploadImages fails, the decision is
\* canUpload = false: the failure is never taken for an owner with no images.
C10_ListingFailureRefuses ==
  (Decided /\ ~batch.info.ok) => ~batch.decision.canUpload

\* ===================================================== properties: the quota
\* (properties of SpecQuota)

\* C9: no owner ever has more than MAX_IMAGES_PER_USER images stored or more
\* than MAX_STORAGE_PER_USER_MB megabytes, whatever uploads run in parallel,
\* batches overlap or listings fail.
C9_QuotaNeverExceeded ==
  \A o \in Owners :
    /\ DataLength(storage[o].files) <= MAX_IMAGES_PER_USER
    /\ TotalBytes(storage[o].files) <= MAX_STORAGE_PER_USER_MB * MB

\* ================================================ the identifier deriver
\* two inputs of the login form, each given to getUserIdentifier
InitDerive ==
  /\ InitQuota(EmptyBag)
  /\ \E a \in DeriveInputs, b \in DeriveInputs :
       derive = [a |-> a, b |-> b, ra |-> NotCalled, rb |-> NotCalled]
  /\ link = IdleLink /\ users = {} /\ auth = {} /\ session = NoSession /\ wire = {}
  /\ imageLinks = {} /\ proxy = {} /\ bulk = IdleBulk /\ InitUi

NextDerive ==
  \/ DeriveFirst
  \/ DeriveSecond

SpecDerive == InitDerive /\ [][NextDerive]_vars

\* the digits of a text, in order
DigitsOf(s) == SelectSeq(s, LAMBDA c : c >= 48 /\ c <= 57)

\* C15: two inputs with the same 11 digits, whatever else they contain, give
\* the same (cpfHash, userId) pair, and userId is the first 16 characters of
\* the 64 of cpfHash.
C15_DigitEqualInputsSamePair ==
  (/\ derive.ra.called /\ derive.rb.called
   /\ DigitsOf(derive.a) = DigitsOf(derive.b) /\ Len(DigitsOf(derive.a)) = 11)
  => /\ ~derive.ra.threw /\ ~derive.rb.threw
     /\ derive.ra.cpfHash = derive.rb.cpfHash /\ derive.ra.userId = derive.rb.userId
     /\ Len(derive.ra.cpfHash) = 64 /\ Len(derive.ra.userId) = 16
     /\ \A i \in 1..16 : derive.ra.userId[i] = derive.ra.cpfHash[i]

\* both calls returned, on inputs that differ and have the same 11 digits
C15_Witness ==
  /\ derive.ra.called /\ derive.rb.called /\ derive.a # derive.b
  /\ DigitsOf(derive.a) = DigitsOf(derive.b) /\ Len(DigitsOf(derive.a)) = 11
  /\ Len(derive.ra.userId) = 16

\* C16 as stated: an input whose digit count is not 11 makes the deriver
\* compute no hash and return a failure result, without throwing.
C16_MalformedReturnsFailure ==
  (derive.ra.called /\ Len(DigitsOf(derive.a)) # 11)
  => (~derive.ra.hashed /\ ~derive.ra.threw)

\* C16: an input whose digit count is not 11 makes the deriver compute no
\* hash and throw: hashCPF throws an Error, getUserIdentifier lets it pass to
\* its caller, and no hash or user id comes out.
C16_MalformedThrows ==
  (derive.ra.called /\ Len(DigitsOf(derive.a)) # 11)
  => /\ ~derive.ra.hashed /\ derive.ra.threw
     /\ derive.ra.cpfHash = <<>> /\ derive.ra.userId = <<>>

\* the deriver was called on an input with punctuation and 10 digits
C16_Witness ==
  /\ derive.ra.called /\ derive.ra.threw
  /\ Len(DigitsOf(derive.a)) = 10 /\ Len(derive.a) > 10

\* ================================================ the link token codec
\* a token is built for an owner and a file name and opened again
InitLink ==
  /\ InitQuota(EmptyBag)
  /\ \E o \in LinkOwners, f \in LinkFileNames :
       link = [cpf |-> o, fileName |-> f, uniqueId |-> <<>>, links |-> {},
               st |-> "start", origin |-> "none", res |-> NoLink, kind |-> "none"]
  /\ derive = IdleDerive /\ users = {} /\ auth = {} /\ session = NoSession /\ wire = {}
  /\ imageLinks = {} /\ proxy = {} /\ bulk = IdleBulk /\ InitUi

NextLink ==
  \/ BuildLink
  \/ ForeignLink
  \/ OpenLink

SpecLink == InitLink /\ [][NextLink]_vars

\* C12: for an owner without hyphen and any file name, hyphens included,
\* opening the token built for them gives back exactly that owner and that
\* file name; the removed padding and the two substitutions lose nothing.
C12_TokenRoundTrip ==
  (link.st = "opened" /\ link.origin = "built" /\ \A i \in 1..Len(link.cpf) : link.cpf[i] # 45)
  => /\ link.res.found /\ ~link.res.threw
     /\ link.res.cpf = link.cpf
     /\ link.res.filename = link.fileName

\* a token that lost padding and holds both substituted characters, for a
\* file name with two hyphens, was opened
C12_Witness ==
  /\ link.st = "opened" /\ link.origin = "built" /\ link.res.found
  /\ \A i \in 1..Len(link.cpf) : link.cpf[i] # 45
  /\ Len(link.uniqueId) % 4 # 0
  /\ \E i \in 1..Len(link.uniqueId) : link.uniqueId[i] = 45
  /\ \E i \in 1..Len(link.uniqueId) : link.uniqueId[i] = 95
  /\ \E i, j \in 1..Len(link.fileName) : i < j /\ link.fileName[i] = 45 /\ link.fileName[j] = 45

\* decoding a token fails: the base64 is malformed, or the decoded text has
\* fewer than two hyphen-separated parts
DecodingFails(uniqueId) ==
  \/ atob(ReplaceAll(ReplaceAll(uniqueId, 45, 47), 95, 43)).threw
  \/ \A i \in 1..Len(atob(ReplaceAll(ReplaceAll(uniqueId, 45, 47), 95, 43)).value) :
        atob(ReplaceAll(ReplaceAll(uniqueId, 45, 47), 95, 43)).value[i] # 45

\* C13: when the decoding of a token fails, getImageLink does not throw, reads
\* the backup map before it reports not-found, and returns the entry the map
\* holds under the token when there is one.
C13_FailedDecodeConsultsBackup ==
  (link.st = "opened" /\ DecodingFails(link.uniqueId))
  => /\ ~link.res.threw
     /\ link.res.consulted
     /\ \A l \in link.links :
          l.uniqueId = link.uniqueId
          => (link.res.found /\ link.res.cpf = l.cpf /\ link.res.filename = l.filename)

\* the text up to the first hyphen of a text that has one
LeftOfFirstHyphen(s) ==
  SubSeq(s, 1, (CHOOSE k \in 1..Len(s) : s[k] = 45 /\ \A j \in 1..(k - 1) : s[j] # 45) - 1)

\* the text after the first hyphen of a text that has one
RightOfFirstHyphen(s) ==
  SubSeq(s, (CHOOSE k \in 1..Len(s) : s[k] = 45 /\ \A j \in 1..(k - 1) : s[j] # 45) + 1, Len(s))

\* 16 characters, each a hexadecimal digit
Hex16(s) ==
  /\ Len(s) = 16
  /\ \A i \in 1..Len(s) : s[i] \in {Code[c] : c \in {"0", "1", "2", "3", "4", "5", "6", "7", "8", "9",
                              "a", "b", "c", "d", "e", "f", "A", "B", "C", "D", "E", "F"}}

\* the token of "5f1a2b3c4d5e6f70-photo.png" was opened
PhotoTokenOpened ==
  /\ link.st = "opened" /\ link.origin = "built"
  /\ link.cpf = Text(<<"5", "f", "1", "a", "2", "b", "3", "c", "4", "d", "5", "e", "6", "f", "7", "0">>)
  /\ link.fileName = Text(<<"p", "h", "o", "t", "o", ".", "p", "n", "g">>)

\* the split at the first hyphen and the classification by shape
SplitAndClassified ==
  (link.st = "opened" /\ link.origin = "built")
  => /\ link.res.found
     /\ link.res.cpf = LeftOfFirstHyphen(link.cpf \o <<45>> \o link.fileName)
     /\ link.res.filename = RightOfFirstHyphen(link.cpf \o <<45>> \o link.fileName)
     /\ (link.kind = "ownerIdentifier") <=> Hex16(link.res.cpf)
     /\ (link.kind = "legacy") <=> ~Hex16(link.res.cpf)

InitSession ==
  /\ InitQuota(EmptyBag)
  /\ InitExtra
  /\ bulk = IdleBulk /\ InitUi

NextSession ==
  \/ SessionLogin
  \/ SessionLoginThrows
  \/ \E l \in session.logins, outcome \in LoginOutcomes : SessionLoginReply(l, outcome)
  \/ SessionLogout
  \/ SessionUpload
  \/ SessionList
  \/ SessionDelete

SpecSession == InitSession /\ [][NextSession]_vars

\* C11: the cleaned CPF never crosses the network: the body of the login
\* request is the 64 character hash, and the owner segment of every storage
\* path of upload, listing and deletion, and the owner inside every token, is
\* the derived 16 character identifier, never the CPF of the session.
C11_RawCpfNeverSent ==
  \A m \in wire :
    /\ m.kind = "auth" => (Len(m.body) = 64 /\ m.body # m.raw)
    /\ m.kind \in {"upload", "list", "remove"} => (Hex16(m.owner) /\ m.owner # m.raw)
    /\ m.kind \in {"upload", "list"} =>
         (Hex16(getImageLink(m.token, {}).cpf) /\ getImageLink(m.token, {}).cpf # m.raw)

\* C26: once logout has run, and until login is invoked again, cpf and userId
\* are null and imageHubCpf and imageHubUserId are absent from localStorage,
\* also when the response of a login started before the logout arrives.
C26_LogoutHolds ==
  session.loggedOut =>
    /\ session.cpf = <<>> /\ session.userId = <<>>
    /\ session.imageHubCpf = <<>> /\ session.imageHubUserId = <<>>

FailedOutcomes == {"malformed", "notOk", "noUserId"}

\* C27: a login call that fails on a malformed ID, on a response that is not
\* ok or on a response without user_id leaves cpf, userId, both localStorage
\* keys and isAuthenticated as they were, and its promise rejects.
C27_FailedLoginKeepsSession ==
  [][ (session'.last # session.last /\ session'.last.outcome \in FailedOutcomes)
      => /\ session'.cpf = session.cpf /\ session'.userId = session.userId
         /\ session'.imageHubCpf = session.imageHubCpf
         /\ session'.imageHubUserId = session.imageHubUserId
         /\ isAuthenticated(session') = isAuthenticated(session)
         /\ session'.last.rejected ]_vars

C27_Witness ==
  /\ session.last.outcome \in {"notOk", "noUserId"}
  /\ isAuthenticated(session)
  /\ session.imageHubCpf = session.cpf /\ session.imageHubUserId = session.userId

\* ================================================ the auth-user function
\* requests to auth-user, served concurrently over the users table
InitAuth ==
  /\ InitQuota(EmptyBag)
  /\ InitExtra
  /\ bulk = IdleBulk /\ InitUi

NextAuth ==
  \/ AuthRequest
  \/ AuthSelect
  \/ AuthInsert

SpecAuth == InitAuth /\ [][NextAuth]_vars

\* C17: after any sequence of auth-user requests the users table has at most
\* one row per cpf_hash, every user_id is the first 16 characters of its
\* cpf_hash, a served request whose hash was not recorded leaves exactly one
\* row for it, and a served request whose hash was recorded returns the
\* recorded user_id and inserts nothing.
C17_OneRowPerHash ==
  /\ \A u, v \in users : u.cpf_hash = v.cpf_hash => u = v
  /\ \A u \in users : u.user_id = SubSeq(u.cpf_hash, 1, 16)
  /\ \A r \in auth :
       (r.st = "done" /\ r.firstSeen)
       => Cardinality({u \in users : u.cpf_hash = r.cpf_hash}) = 1
  /\ \A r \in auth :
       (r.st = "done" /\ r.status # 400 /\ ~r.firstSeen)
       => /\ ~r.inserted
          /\ \E u \in users : u.cpf_hash = r.cpf_hash /\ r.user_id = u.user_id

\* C25: two auth-user requests with the same well-formed hash that both
\* looked it up before either inserted both get a success response with the
\* same user_id.
C25_ConcurrentFirstLogins ==
  \A r1, r2 \in auth :
    (r1.id # r2.id /\ r1.cpf_hash = r2.cpf_hash /\ r1.st = "done" /\ r2.st = "done"
       /\ r1.firstSeen /\ r2.firstSeen)
    => (r1.status = 200 /\ r2.status = 200 /\ r1.user_id = r2.user_id)

\* ================================================== image retrieval
\* retrieval requests over a directory that holds some of the rows
InitProxy ==
  /\ InitQuota(EmptyBag)
  /\ derive = IdleDerive /\ link = IdleLink /\ users = {} /\ auth = {}
  /\ session = NoSession /\ wire = {} /\ proxy = {} /\ bulk = IdleBulk /\ InitUi
  /\ imageLinks \in SUBSET DirectoryRows

NextProxy ==
  \/ ProxyRequest
  \/ ProxyLookup
  \/ ProxyDownload

SpecProxy == InitProxy /\ [][NextProxy]_vars

\* the directory has a row for the token
HasEntry(uniqueId) == \E l \in imageLinks : l.unique_id = uniqueId

\* bytes go out only for a token the lookup resolved, and a failed storage
\* read of a resolved token gives 500
ResolvedRule(r) ==
  /\ (r.handler = "image-proxy" /\ r.bytes) => r.resolved
  /\ r.bytes => r.status = 200
  /\ (r.resolved /\ r.readFailed) => (r.status = 500 /\ ~r.bytes)
  /\ (r.resolved /\ ~r.readFailed) => r.bytes

\* C18 as stated: in both handlers a token without a row in image_links gets
\* 404 and no bytes, bytes go out only for tokens that resolve, and a failed
\* storage read of a resolved token gives 500.
C18_UnresolvedGets404 ==
  \A r \in proxy :
    (r.st = "done" /\ r.unique_id # <<>>)
    => /\ ResolvedRule(r)
       /\ ~HasEntry(r.unique_id) => (r.status = 404 /\ ~r.bytes)
       /\ r.bytes => r.resolved

\* C18: in image-proxy a token without a row in image_links gets 404 and no
\* bytes. In the route GET /image/:uniqueId such a token gets the bytes with
\* 200 when its decoded text has two hyphen-separated parts or more and the
\* object at first-part/rest is read from the bucket, and 404 and no bytes
\* otherwise. In both, a resolved token gets the bytes, or 500 when the
\* storage read fails.
C18_UnresolvedGets404OrLegacyBytes ==
  \A r \in proxy :
    (r.st = "done" /\ r.unique_id # <<>>)
    => /\ ResolvedRule(r)
       /\ (r.handler = "image-proxy" /\ ~HasEntry(r.unique_id)) => (r.status = 404 /\ ~r.bytes)
       /\ (r.handler = "route" /\ ~HasEntry(r.unique_id)) =>
            IF /\ Len(LegacyParts(r.unique_id)) >= 2
               /\ LegacyPath(r.unique_id) \in BucketObjects
               /\ ~r.readFailed
            THEN r.status = 200 /\ r.bytes
            ELSE r.status = 404 /\ ~r.bytes

\* the route answered a token without a row with the bytes of the decoded
\* path, and image-proxy answered the same token with 404
C18_Witness ==
  /\ \E r \in proxy : /\ r.st = "done" /\ r.handler = "route"
                       /\ ~HasEntry(r.unique_id) /\ r.bytes
  /\ \E r \in proxy : /\ r.st = "done" /\ r.handler = "image-proxy"
                       /\ ~HasEntry(r.unique_id) /\ r.status = 404

\* (properties of SpecAdmit)
\* C19: in a batch of N files that passed admission every file gets its
\* upload whatever happens to the others: each file is either still being
\* uploaded or counted once as succeeded or failed, a failure removes no
\* other upload, there is one failure message per failed file, and when all
\* have settled succeeded + failed = N.
C19_EveryFileAccounted ==
  (batch.entry = "handleFiles" /\ batch.st \in {"uploading", "done"})
  => /\ Cardinality(uploads) + batch.succeeded + batch.failed = Len(batch.files)
     /\ \A i \in 1..Len(batch.files) :
          Cardinality({u \in uploads : u.i = i}) <= 1
     /\ batch.messages = batch.failed
     /\ batch.st = "done" <=> uploads = {}
     /\ batch.st = "done" => batch.succeeded + batch.failed = Len(batch.files)

\* a batch of two files ended with one stored and one failed
C19_Witness ==
  /\ batch.entry = "handleFiles" /\ batch.st = "done"
  /\ Len(batch.files) = 2
  /\ batch.succeeded = 1 /\ batch.failed = 1 /\ batch.messages = 1

\* ================================================== deleteMultipleImages
\* bulk deletions over a folder that holds some of the files
InitBulk ==
  /\ InitQuota(EmptyBag)
  /\ InitExtra
  /\ \E files \in SUBSET BulkNames : bulk = [IdleBulk EXCEPT !.store = files]
  /\ InitUi

NextBulk ==
  \/ DeleteMultipleImages
  \/ BulkOtherDelete
  \/ BulkReply
  \/ BulkSettle

SpecBulk == InitBulk /\ [][NextBulk]_vars

\* C20: deleteMultipleImages returns the number of images that were deleted:
\* 0 for an empty list, without any network call, 0 when the remove call
\* fails, and else the number of objects the backend reports as removed, also
\* when that is fewer than requested, or none.
C20_ReturnsDeletedCount ==
  bulk.st = "done"
  => /\ bulk.ret = bulk.deleted
     /\ bulk.fileNames = {} => (bulk.ret = 0 /\ ~bulk.called)
     /\ bulk.error => bulk.ret = 0
     /\ (bulk.called /\ ~bulk.error) => bulk.ret = bulk.removed

\* ============================================================ ImageViewer
\* the effect of ImageViewer, its cleanup and its loads
InitViewer ==
  /\ InitQuota(EmptyBag)
  /\ InitExtra
  /\ bulk = IdleBulk /\ InitUi

NextViewer ==
  \/ ViewerEffect
  \/ ViewerCleanup
  \/ ViewerLink
  \/ ViewerProxy
  \/ ViewerFallback

SpecViewer == InitViewer /\ [][NextViewer]_vars

\* a run that got past the guard and started its load
StartedLoad(r) == r.st \in {"link", "proxy", "fallback", "done"} /\ r.uniqueId # <<>>

\* C22: for a uniqueId, an effect run, its cleanup and a second effect run
\* that follows at once start one image load at most: the second run returns
\* at the guard.
C22_OneLoadPerUniqueId ==
  \A r1, r2 \in viewer.runs :
    (r2.id = r1.id + 1 /\ r2.immediate /\ r1.uniqueId = r2.uniqueId /\ r1.uniqueId # <<>>)
    => ~(StartedLoad(r1) /\ StartedLoad(r2))

\* ===================================================== failed mutations
\* the uploader's batches and the deletions of the gallery, side by side
NextMutate ==
  \/ \E f \in fetches, ok \in BOOLEAN : ListReply(f, ok)
  \/ \E f \in fetches : FetchSettle(f)
  \/ \E files \in BatchInputs : nbatches < MaxMutateBatches /\ HandleFiles(files)
  \/ CanUploadCompress
  \/ \E u \in uploads, ok \in BOOLEAN : UploadReply(u, ok)
  \/ \E u \in uploads : UploadSettle(u)
  \/ \E s \in FileSizes : DeleteImage(s)
  \/ \E r \in removes, ok \in BOOLEAN : RemoveReply(r, ok)
  \/ \E r \in removes : RemoveSettle(r)

SpecMutate == Init /\ [][NextMutate]_vars

\* the step leaves the backup link map, the usage snapshot and the
\* pending-request markers as they were
NoLocalEffect ==
  /\ local'.links = local.links
  /\ userImagesCache' = userImagesCache
  /\ pendingRequests' = pendingRequests

\* C23: a failed mutation has no local side effect.  The step in which
\* uploadImage returns after an upload error counts one failed file and
\* leaves the backup link map, the usage snapshot and the pending-request
\* markers unchanged; the step in which deleteImage returns after a remove
\* error returns false and leaves the same three unchanged.
C23_FailedMutationNoSideEffect ==
  [][ /\ (\E u \in uploads : u.st = "error" /\ \A v \in uploads' : v.i # u.i)
         => (NoLocalEffect /\ batch'.failed = batch.failed + 1 /\ batch'.succeeded = batch.succeeded)
      /\ (\E r \in removes : r.st = "error" /\ \A q \in removes' : q.id # r.id)
         => (NoLocalEffect /\ local'.deleted = "false") ]_vars

\* an upload failed and a deletion failed while the owner had a snapshot, a
\* pending list call or a saved link
C23_Witness ==
  /\ batch.failed > 0
  /\ local.deleted = "false"
  /\ \/ userImagesCache # {}
     \/ \E o \in Owners : pendingRequests[o] # 0
     \/ \E o \in Owners, s \in FileSizes : local.links[o][s] > 0

\* ===================================================== admission decisions
\* the rejection of canUploadImages after a failed compression (line 399-414)
CompressionRejection(d, files) == ~d.canUpload /\ d.reason = "count" /\ d.compressed = Len(files)

\* the statement as the specification has it: reason 'count' goes with an
\* exceeded count, and a rejection reports the count and the usage of its
\* listing
C24_CountReasonAsStated ==
  (batch.decision.made /\ ~batch.decision.canUpload) =>
    /\ batch.decision.reason = "count"
         => batch.info.count + Len(batch.files) > batch.decision.maxCount
    /\ batch.decision.currentCount = batch.info.count
    /\ batch.decision.currentBytes = batch.info.bytes

\* C24: a decision of canUploadImages with reason 'count' has currentCount +
\* number of candidate files > maxCount or is the rejection after a failed
\* compression; every rejection reports the currentCount its listing observed
\* and the currentMB its listing observed, except the rejection after a failed
\* compression, which reports currentMB 0.
C24_CountReasonOrCompression ==
  (batch.decision.made /\ ~batch.decision.canUpload) =>
    /\ batch.decision.reason = "count"
         => \/ batch.info.count + Len(batch.files) > batch.decision.maxCount
            \/ CompressionErrors(batch.files) # {}
    /\ batch.decision.currentCount = batch.info.count
    /\ batch.decision.currentBytes =
         IF CompressionRejection(batch.decision, batch.files) THEN 0 ELSE batch.info.bytes

C24_Witness ==
  /\ batch.decision.made /\ ~batch.decision.canUpload
  /\ batch.decision.reason = "count"
  /\ batch.info.count + Len(batch.files) <= batch.decision.maxCount
  /\ batch.info.bytes > 0
  /\ batch.decision.currentCount = batch.info.count

\* ======================================================== the gallery
\* the gallery of a signed-in owner: listings, page changes, selections and
\* deletions
InitGallery ==
  /\ InitQuota(EmptyBag)
  /\ InitExtra
  /\ bulk = IdleBulk /\ InitUi

NextGallery ==
  \/ \E l \in gallery.loads, ok \in BOOLEAN : LoadImagesReply(l, ok)
  \/ Refresh
  \/ \E page \in 1..(Len(GalleryFiles) + 1) : PageChange(page)
  \/ \E uniqueId \in SeqRange(GalleryFiles) : ToggleSelect(uniqueId)
  \/ SelectAllCurrentPage
  \/ ClearSelection
  \/ \E displayIndex \in 1..ItemsPerPage : HandleDelete(displayIndex)
  \/ \E d \in gallery.deletes, ok \in BOOLEAN : DeleteReply(d, ok)
  \/ HandleBulkDelete
  \/ \E ok \in BOOLEAN : BulkDeleteReply(ok)

SpecGallery == InitGallery /\ [][NextGallery]_vars

\* no listing and no deletion waits for the storage
NoRequestOutstanding ==
  gallery.loads = {} /\ gallery.deletes = {} /\ gallery.bulkDelete.st = "idle"

\* C21: once no request is outstanding, the displayed images are those the
\* most recently issued listing request returned for the current page, less
\* the images deleted one by one after it answered: a result that a later
\* request superseded is not displayed, in whatever order the requests
\* resolve.
C21_SupersededResultsIgnored ==
  NoRequestOutstanding =>
    /\ gallery.returned.id = gallery.nloads
    /\ gallery.returned.page = gallery.currentPage
    /\ gallery.images = Without(gallery.returned.images, gallery.returned.removed)

\* C28: after two single deletions from the gallery both succeeded, neither
\* image is in the displayed list and totalImages is two less than before
\* them, however the two calls interleave.
C28_TwoDeletions ==
  Cardinality(gallery.since.singles) = 2 =>
    /\ gallery.since.singles \cap SeqRange(gallery.images) = {}
    /\ gallery.since.total # NoTotal => gallery.totalImages = gallery.since.total - 2

\* C29: whenever the gallery is not loading, every uniqueId of the selection
\* map is the uniqueId of an image of the displayed list.
C29_SelectionWithinDisplayed ==
  ~gallery.loading => gallery.selectedMap \subseteq SeqRange(gallery.images)

====
